---- MODULE Spec2Model ----
(***************************************************************************)
(* A model of cameractrls.py: the control backends (generic V4L2, format,  *)
(* the vendor extension-unit backends), the aggregator CameraCtrls and the *)
(* V4L2Listener thread, together with the device they talk to.             *)
(*                                                                         *)
(* Python values are tagged pairs, so that a str and an int are never      *)
(* equal, as in Python:                                                    *)
(*   <<"none", 0>>   None                                                  *)
(*   <<"int", n>>    the int n                                             *)
(*   <<"bool", b>>   the bool b (b is 0 or 1)                              *)
(*   <<"str", w>>    the str w, a word that is no numeral and no percent   *)
(*   <<"num", n>>    the str that is the decimal numeral of n ('65')       *)
(*   <<"pct", n>>    the str 'n%'                                          *)
(*   <<"cc", s>>     a four-character str, s its four character codes      *)
(*   <<"wh", <<w, h>> >>  the str 'wxh'                                    *)
(*   <<"dec", t>>    the str of t/10 with one decimal, '.0' elided         *)
(*   <<"deg", n>>    the str 'n' followed by a degree sign                 *)
(*   <<"ev", n>>     the str 'n.0 EV'                                      *)
(*   <<"bytes", c>>  a bytes literal (c names the command)                 *)
(*   <<"buf", c>>    a ctypes string buffer object                         *)
(***************************************************************************)
EXTENDS Integers, Sequences, FiniteSets, TLC

None == <<"none", 0>>
PyInt(n) == <<"int", n>>
PyBool(b) == <<"bool", b>>
Str(w) == <<"str", w>>
Num(n) == <<"num", n>>
Pct(n) == <<"pct", n>>

IsPyStr(v) == v[1] \in {"str", "num", "pct", "cc", "wh", "dec", "deg", "ev"}

\* int(v): defined for an int, a bool and a numeral str; raises otherwise
CanInt(v) == v[1] \in {"int", "bool", "num"}
IntOf(v) == v[2]

TrueWords == {"y", "yes", "t", "true", "on"}

\* to_bool(val)
to_bool(val) ==
    IF IsPyStr(val)
    THEN (val[1] = "str" /\ val[2] \in TrueWords) \/ val = Num(1)
    ELSE /\ val # None
         /\ (val[1] \in {"int", "bool"} => val[2] # 0)

BoolInt(b) == IF b THEN 1 ELSE 0

Min2(a, b) == IF a < b THEN a ELSE b
Max2(a, b) == IF a > b THEN a ELSE b

\* Python's round() of the rational n/d (d > 0): nearest integer, ties to even
PyRound(n, d) ==
    LET q == n \div d
        r == n % d
    IN  IF 2 * r < d THEN q
        ELSE IF 2 * r > d THEN q + 1
        ELSE IF q % 2 = 0 THEN q ELSE q + 1

\* find_idx(ctrls, pred) with pred(c) == c.text_id = text_id, 0 for None
RECURSIVE FindFrom(_, _, _)
FindFrom(seq, text_id, i) ==
    IF i > Len(seq) THEN 0
    ELSE IF seq[i].text_id = text_id THEN i
    ELSE FindFrom(seq, text_id, i + 1)

\* find_by_text_id(ctrls, text_id): the index of the first match, 0 for None
find_by_text_id(ctrls, text_id) == FindFrom(ctrls, text_id, 1)

RECURSIVE FindValueFrom(_, _, _)
FindValueFrom(menu, value, i) ==
    IF i > Len(menu) THEN 0
    ELSE IF menu[i].value = value THEN i
    ELSE FindValueFrom(menu, value, i + 1)

\* find_by_value(menu, value): the index of the first match, 0 for None
find_by_value(menu, value) == FindValueFrom(menu, value, 1)

\* BaseCtrlMenu(text_id, name, value); before is KiyoMenu._before
Menu(text_id, value) == [text_id |-> text_id, value |-> value, before |-> None]
MenuB(text_id, value, before) == [text_id |-> text_id, value |-> value, before |-> before]

\* BaseCtrl and its subclasses: the fields the backends read and write
Ctrl(text_id, type, value, default, min, max, menu) ==
    [text_id |-> text_id, type |-> type, value |-> value, default |-> default,
     min |-> min, max |-> max, menu |-> menu,
     inactive |-> FALSE, readonly |-> FALSE, unrestorable |-> FALSE,
     v4l2_id |-> 0, unit |-> 0, sel |-> 0, off |-> 0]

(***************************************************************************)
(* The machine state threaded through the handlers: the registry reg (one  *)
(* list of controls per backend), the device dev, the preset file cfg, the *)
(* warnings list errs, the log of backend calls, device writes and         *)
(* warnings in the order they happen, raised (an uncaught exception), and  *)
(* the invocations of CameraCtrls.setup_ctrls: calls counts them and frame *)
(* is the one running (0 outside of any).                                  *)
(***************************************************************************)
Logged(m, op, b, key, val) ==
    [m EXCEPT !.log = Append(@, [op |-> op, b |-> b, key |-> key, val |-> val, frame |-> m.frame])]

\* collect_warning(w, errs), w a warning of the given kind about key
Warn(m, src, key, kind) ==
    [Logged(m, "warning", src, key, kind)
        EXCEPT !.errs = Append(@, [src |-> src, key |-> key, kind |-> kind, keys |-> {}, frame |-> m.frame])]

Raise(m) == [m EXCEPT !.raised = TRUE]

SetValue(m, b, i, value) == [m EXCEPT !.reg[b][i].value = value]

(***************************************************************************)
(* The generic backend, V4L2Ctrls.                                         *)
(***************************************************************************)
V4L2_CTRL_TYPE_INTEGER == 1
V4L2_CTRL_TYPE_BOOLEAN == 2
V4L2_CTRL_TYPE_MENU == 3
V4L2_CTRL_TYPE_BUTTON == 4
V4L2_CTRL_TYPE_CTRL_CLASS == 6
V4L2_CTRL_TYPE_INTEGER_MENU == 9
V4L2_CTRL_FLAG_READ_ONLY == 4
V4L2_CTRL_FLAG_INACTIVE == 16

\* the control ids of the modelled device
V4L2_CID_USER_CLASS == 9961473
V4L2_CID_SATURATION == 9963778
V4L2_CID_AUTO_WHITE_BALANCE == 9963788
V4L2_CID_POWER_LINE_FREQUENCY == 9963800
V4L2_CID_PAN_RESET == 10094854

\* V4L2Ctrls.to_text_id on the names the modelled device reports
to_text_id(name) ==
    CASE name = "Saturation" -> "saturation"
      [] name = "White Balance, Automatic" -> "white_balance_automatic"
      [] name = "Power Line Frequency" -> "power_line_frequency"
      [] name = "Pan, Reset" -> "pan_reset"
      [] name = "Disabled" -> "disabled"
      [] name = "50 Hz" -> "50_hz"
      [] OTHER -> name

\* what VIDIOC_QUERYCTRL with the next-control flag returns, in order, until it fails
QueryCtrls ==
    << [id |-> V4L2_CID_USER_CLASS, type |-> V4L2_CTRL_TYPE_CTRL_CLASS, name |-> "User Controls",
        minimum |-> 0, maximum |-> 0, step |-> 0, default |-> 0],
       [id |-> V4L2_CID_SATURATION, type |-> V4L2_CTRL_TYPE_INTEGER, name |-> "Saturation",
        minimum |-> 0, maximum |-> 2, step |-> 1, default |-> 1],
       [id |-> V4L2_CID_AUTO_WHITE_BALANCE, type |-> V4L2_CTRL_TYPE_BOOLEAN, name |-> "White Balance, Automatic",
        minimum |-> 0, maximum |-> 1, step |-> 1, default |-> 1],
       [id |-> V4L2_CID_POWER_LINE_FREQUENCY, type |-> V4L2_CTRL_TYPE_MENU, name |-> "Power Line Frequency",
        minimum |-> 0, maximum |-> 2, step |-> 1, default |-> 1],
       [id |-> V4L2_CID_PAN_RESET, type |-> V4L2_CTRL_TYPE_BUTTON, name |-> "Pan, Reset",
        minimum |-> 0, maximum |-> 0, step |-> 0, default |-> 0] >>

\* what VIDIOC_QUERYMENU returns for (id, index): a name, or "" when the call fails
QueryMenu(id, index) ==
    IF id = V4L2_CID_POWER_LINE_FREQUENCY /\ index = 0 THEN "Disabled"
    ELSE IF id = V4L2_CID_POWER_LINE_FREQUENCY /\ index = 1 THEN "50 Hz"
    ELSE ""

V4L2Ids == {QueryCtrls[i].id : i \in 1..Len(QueryCtrls)}

QCtrlOf(id) == CHOOSE q \in {QueryCtrls[i] : i \in 1..Len(QueryCtrls)} : q.id = id

\* V4L2Ctrls.to_type, with the [0,1] step 1 integer made a boolean
V4L2TypeOf(q) ==
    IF q.type = V4L2_CTRL_TYPE_INTEGER
    THEN (IF q.minimum = 0 /\ q.maximum = 1 /\ q.step = 1 THEN "boolean" ELSE "integer")
    ELSE IF q.type = V4L2_CTRL_TYPE_BOOLEAN THEN "boolean"
    ELSE IF q.type \in {V4L2_CTRL_TYPE_MENU, V4L2_CTRL_TYPE_INTEGER_MENU} THEN "menu"
    ELSE "button"

\* the menu built by the per-index VIDIOC_QUERYMENU loop: failed indices are skipped
RECURSIVE V4L2MenuFrom(_, _)
V4L2MenuFrom(q, i) ==
    IF i > q.maximum THEN << >>
    ELSE IF QueryMenu(q.id, i) = "" THEN V4L2MenuFrom(q, i + 1)
    ELSE << Menu(Str(to_text_id(QueryMenu(q.id, i))), PyInt(i)) >> \o V4L2MenuFrom(q, i + 1)

\* a live number resolved to the text id of its menu entry, None without one
V4L2MenuValue(menu, n) ==
    IF find_by_value(menu, PyInt(n)) = 0 THEN None
    ELSE menu[find_by_value(menu, PyInt(n))].text_id

\* the V4L2Ctrl built for one returned descriptor q; cur is what VIDIOC_G_CTRL read
V4L2MakeCtrl(q, cur, flags) ==
    LET type == V4L2TypeOf(q)
        menu == IF type = "menu" THEN V4L2MenuFrom(q, q.minimum)
                ELSE IF type = "button" THEN << Menu(Str(to_text_id(q.name)), Str(to_text_id(q.name))) >>
                ELSE << >>
        base == Ctrl(to_text_id(q.name), type,
                     IF type = "button" THEN None
                     ELSE IF type = "menu" THEN V4L2MenuValue(menu, cur)
                     ELSE PyInt(cur),
                     IF type = "button" THEN None
                     ELSE IF type = "menu" THEN V4L2MenuValue(menu, q.default)
                     ELSE PyInt(q.default),
                     q.minimum, q.maximum, menu)
    IN  [base EXCEPT !.v4l2_id = q.id,
                     !.inactive = (flags \div V4L2_CTRL_FLAG_INACTIVE) % 2 = 1,
                     !.readonly = (flags \div V4L2_CTRL_FLAG_READ_ONLY) % 2 = 1]

V4L2Enumerated(q) ==
    q.type \in {V4L2_CTRL_TYPE_INTEGER, V4L2_CTRL_TYPE_BOOLEAN, V4L2_CTRL_TYPE_MENU,
                V4L2_CTRL_TYPE_INTEGER_MENU, V4L2_CTRL_TYPE_BUTTON}

\* V4L2Ctrls.get_device_controls: vals and flags are the device's per id
RECURSIVE V4L2GetFrom(_, _, _)
V4L2GetFrom(i, vals, flags) ==
    IF i > Len(QueryCtrls) THEN << >>
    ELSE (IF V4L2Enumerated(QueryCtrls[i])
          THEN << V4L2MakeCtrl(QueryCtrls[i], vals[QueryCtrls[i].id], flags[QueryCtrls[i].id]) >>
          ELSE << >>) \o V4L2GetFrom(i + 1, vals, flags)

V4L2_get_device_controls(vals, flags) == V4L2GetFrom(1, vals, flags)

\* round() of the float nearest to n/d: the nearest integer; when n/d lies
\* exactly between two integers the float's rounding error decides, up says how
RoundFloat(n, d, up) ==
    IF 2 * (n % d) = d THEN (IF up THEN n \div d + 1 ELSE n \div d) ELSE PyRound(n, d)

\* PercentValue with the default taken as 100% instead of 50%
PercentValue_DefaultIsFull(ctrl, nn, up) ==
    Max2(ctrl.min,
         Min2(ctrl.max,
              RoundFloat(100 * ctrl.min + (IntOf(ctrl.default) - ctrl.min) * nn, 100, up)))

\* the percentage literal 'NN%' on an integer control: default is 50%,
\* round() of the float, then min(max, .) and max(min, .)
PercentValue(ctrl, nn, up) ==
    Max2(ctrl.min,
         Min2(ctrl.max,
              RoundFloat(100 * ctrl.min + (IntOf(ctrl.default) - ctrl.min) * nn * 2, 100, up)))

\* the value the driver stores and reports for a VIDIOC_S_CTRL it accepts:
\* an integer control's value is brought into the control's range
DriverValue(ctrl, intvalue) ==
    IF ctrl.type = "integer" THEN Max2(ctrl.min, Min2(ctrl.max, intvalue)) ELSE intvalue

\* V4L2Write with the read-back comparison left out: the value is stored
\* whenever the call does not fail
V4L2Write_Unverified(m, i, k, v, intvalue, out) ==
    LET ctrl == m.reg.v4l[i]
        m1 == Logged(m, "S_CTRL", "v4l", k, intvalue)
        reported == IF out.val = 0 THEN DriverValue(ctrl, intvalue) ELSE m.dev.v4l[ctrl.v4l2_id]
    IN  IF out.fail THEN Warn(m1, "V4L2Ctrls", k, "cant_set")
        ELSE SetValue([m1 EXCEPT !.dev.v4l[ctrl.v4l2_id] = reported], "v4l", i,
                      IF ctrl.type = "menu" THEN v ELSE PyInt(intvalue))

\* what setup_ctrls does once intvalue is known: VIDIOC_S_CTRL, the read-back
\* comparison, and the assignment; out is the device's answer to the call:
\* it fails (out.fail), it takes the value (out.val = 0), or it succeeds and
\* keeps the value it had
V4L2Write(m, i, k, v, intvalue, out) ==
    LET ctrl == m.reg.v4l[i]
        m1 == Logged(m, "S_CTRL", "v4l", k, intvalue)
        reported == IF out.val = 0 THEN DriverValue(ctrl, intvalue) ELSE m.dev.v4l[ctrl.v4l2_id]
    IN  IF out.fail THEN Warn(m1, "V4L2Ctrls", k, "cant_set")
        ELSE LET m2 == [m1 EXCEPT !.dev.v4l[ctrl.v4l2_id] = reported]
             IN  IF reported # intvalue THEN Warn(m2, "V4L2Ctrls", k, "cant_set")
                 ELSE SetValue(m2, "v4l", i, IF ctrl.type = "menu" THEN v ELSE PyInt(intvalue))

\* V4L2SetupKey with 'default' taken as 0 instead of the stored default
V4L2SetupKey_DefaultZero(m, k, v0, out) ==
    LET i == find_by_text_id(m.reg.v4l, k)
        ctrl == m.reg.v4l[i]
        v == IF v0 = Str("default") THEN PyInt(0) ELSE v0
    IN  IF i = 0 THEN m
        ELSE IF ctrl.type = "integer"
        THEN (IF v[1] = "pct" THEN V4L2Write(m, i, k, v, PercentValue(ctrl, v[2], out.tie), out)
              ELSE IF CanInt(v) THEN V4L2Write(m, i, k, v, IntOf(v), out)
              ELSE Raise(Logged(m, "raise", "v4l", k, v)))
        ELSE IF ctrl.type = "boolean"
        THEN V4L2Write(m, i, k, v, BoolInt(to_bool(v)), out)
        ELSE IF ctrl.type = "menu"
        THEN (IF find_by_text_id(ctrl.menu, v) = 0 THEN Warn(m, "V4L2Ctrls", k, "cant_find")
              ELSE V4L2Write(m, i, k, v, IntOf(ctrl.menu[find_by_text_id(ctrl.menu, v)].value), out))
        ELSE IF ctrl.type = "button"
        THEN V4L2Write(m, i, k, v, 0, out)
        ELSE Warn(m, "V4L2Ctrls", k, "unsupported")

\* one iteration of the loop of V4L2Ctrls.setup_ctrls, for the pair (k, v0)
V4L2SetupKey(m, k, v0, out) ==
    LET i == find_by_text_id(m.reg.v4l, k)
        ctrl == m.reg.v4l[i]
        v == IF v0 = Str("default") THEN ctrl.default ELSE v0
    IN  IF i = 0 THEN m
        ELSE IF ctrl.type = "integer"
        THEN (IF v[1] = "pct" THEN V4L2Write(m, i, k, v, PercentValue(ctrl, v[2], out.tie), out)
              ELSE IF CanInt(v) THEN V4L2Write(m, i, k, v, IntOf(v), out)
              ELSE Raise(Logged(m, "raise", "v4l", k, v)))
        ELSE IF ctrl.type = "boolean"
        THEN V4L2Write(m, i, k, v, BoolInt(to_bool(v)), out)
        ELSE IF ctrl.type = "menu"
        THEN (IF find_by_text_id(ctrl.menu, v) = 0 THEN Warn(m, "V4L2Ctrls", k, "cant_find")
              ELSE V4L2Write(m, i, k, v, IntOf(ctrl.menu[find_by_text_id(ctrl.menu, v)].value), out))
        ELSE IF ctrl.type = "button"
        THEN V4L2Write(m, i, k, v, 0, out)
        ELSE Warn(m, "V4L2Ctrls", k, "unsupported")

\* V4L2Ctrls.setup_ctrls(params, errs): the loop over the batch; an uncaught
\* exception ends it. outs[j] is the device's answer for the j-th pair.
RECURSIVE V4L2SetupFrom(_, _, _, _)
V4L2SetupFrom(m, params, outs, j) ==
    IF j > Len(params) \/ m.raised THEN m
    ELSE V4L2SetupFrom(V4L2SetupKey(m, params[j][1], params[j][2], outs[j]), params, outs, j + 1)

V4L2_setup_ctrls(m, params, outs) == V4L2SetupFrom(m, params, outs, 1)

\* set_ctrl_int_value storing the number when no menu entry has it
set_ctrl_int_value_Raw(m, i, intvalue) ==
    LET ctrl == m.reg.v4l[i]
    IN  IF ctrl.type # "menu" \/ find_by_value(ctrl.menu, PyInt(intvalue)) = 0
        THEN SetValue(m, "v4l", i, PyInt(intvalue))
        ELSE SetValue(m, "v4l", i, ctrl.menu[find_by_value(ctrl.menu, PyInt(intvalue))].text_id)

\* V4L2Ctrls.set_ctrl_int_value(ctrl, intvalue, errs), on the i-th control
set_ctrl_int_value(m, i, intvalue) ==
    LET ctrl == m.reg.v4l[i]
    IN  IF ctrl.type # "menu" THEN SetValue(m, "v4l", i, PyInt(intvalue))
        ELSE IF find_by_value(ctrl.menu, PyInt(intvalue)) = 0
        THEN Warn(m, "V4L2Ctrls", ctrl.text_id, "cant_find")
        ELSE SetValue(m, "v4l", i, ctrl.menu[find_by_value(ctrl.menu, PyInt(intvalue))].text_id)

\* V4L2Ctrls.find_by_v4l2_id: the index of the control, 0 for None
RECURSIVE FindIdFrom(_, _, _)
FindIdFrom(ctrls, v4l2_id, i) ==
    IF i > Len(ctrls) THEN 0
    ELSE IF ctrls[i].v4l2_id = v4l2_id THEN i
    ELSE FindIdFrom(ctrls, v4l2_id, i + 1)

find_by_v4l2_id(ctrls, v4l2_id) == FindIdFrom(ctrls, v4l2_id, 1)

(***************************************************************************)
(* The format backend, V4L2FmtCtrls.                                       *)
(***************************************************************************)
\* A 32-bit number such as a pixel format is written <<low, high>>, its two
\* 16-bit halves.
\* v4l2_fourcc, of the characters' codes
v4l2_fourcc(a, b, c, d) == <<a + b * 256, c + d * 256>>

\* str2pxf with the first character in the highest byte
str2pxf_BigEndian(s) == <<s[2][4] + s[2][3] * 256, s[2][2] + s[2][1] * 256>>

\* str2pxf and pxf2str: four characters, the first in the lowest byte
str2pxf(s) == <<s[2][1] + s[2][2] * 256, s[2][3] + s[2][4] * 256>>
pxf2str(pxf) ==
    <<"cc", << pxf[1] % 256, (pxf[1] \div 256) % 256, pxf[2] % 256, (pxf[2] \div 256) % 256 >> >>

\* wh2str and str2wh
wh2str(wh) == <<"wh", <<wh.width, wh.height>> >>
str2wh(s, wh) == [wh EXCEPT !.width = s[2][1], !.height = s[2][2]]

\* dn2str: denominator/numerator with one decimal, a trailing '.0' elided
dn2str(dn) ==
    LET t == PyRound(10 * dn.denominator, dn.numerator)
    IN  IF t % 10 = 0 THEN Num(t \div 10) ELSE <<"dec", t>>

\* An fps str is <<"num", n>> when it has no decimals, <<"dec", t>> when it
\* has one (t tenths) and <<"hun", h>> when it has two (h hundredths).
\* float(fps) as an exact number of hundredths
FpsHundredths(fps) ==
    IF fps[1] = "num" THEN 100 * fps[2] ELSE IF fps[1] = "dec" THEN 10 * fps[2] ELSE fps[2]

\* int(float(fps)*10): int() drops the fraction of the product
FpsTenths(fps) == FpsHundredths(fps) \div 10

\* the character codes of 'YUYV' and 'MJPG'
CC_YUYV == <<"cc", <<89, 85, 89, 86>> >>
CC_MJPG == <<"cc", <<77, 74, 80, 71>> >>

\* what the device enumerates: formats, discrete frame sizes, discrete intervals
DevFormats == << str2pxf(CC_YUYV), str2pxf(CC_MJPG) >>
DevSizes == << [width |-> 320, height |-> 240], [width |-> 640, height |-> 480] >>
DevIntervals == << [numerator |-> 1, denominator |-> 30], [numerator |-> 1, denominator |-> 15] >>

\* V4L2FmtCtrls.get_fmts
get_fmts == [i \in 1..Len(DevFormats) |-> pxf2str(DevFormats[i])]

\* the sort key of get_resolutions: the list [width, height], compared in order
ResKeyGreater(a, b) == a[2][1] > b[2][1] \/ (a[2][1] = b[2][1] /\ a[2][2] > b[2][2])

RECURSIVE SortDesc(_)
SortDesc(s) ==
    IF Len(s) <= 1 THEN s
    ELSE LET big == CHOOSE i \in 1..Len(s) :
                        /\ \A j \in 1..Len(s) : ~ResKeyGreater(s[j], s[i])
                        /\ \A j \in 1..(i - 1) : ResKeyGreater(s[i], s[j])
         IN  << s[big] >> \o SortDesc([k \in 1..(Len(s) - 1) |-> IF k < big THEN s[k] ELSE s[k + 1]])

\* V4L2FmtCtrls.get_resolutions and get_framerates
get_resolutions_from(sizes) == SortDesc([i \in 1..Len(sizes) |-> wh2str(sizes[i])])
get_resolutions == get_resolutions_from(DevSizes)
get_framerates == [i \in 1..Len(DevIntervals) |-> dn2str(DevIntervals[i])]

\* V4L2FmtCtrls.get_fps on the device's stream parameters; 0 when the call
\* fails or the interval is invalid
get_fps(parm, failed) ==
    IF failed \/ parm.numerator = 0 \/ parm.denominator = 0 THEN PyInt(0)
    ELSE dn2str(parm)

TextMenu(texts) == [i \in 1..Len(texts) |-> Menu(texts[i], None)]

InfoCtrl(text_id, value) == Ctrl(text_id, "info", Str(value), None, 0, 0, << >>)

\* V4L2FmtCtrls.get_format_ctrls on the device state dev
get_format_ctrls(dev) ==
    << Ctrl("pixelformat", "menu", pxf2str(dev.fmt.pixelformat), None, 0, 0, TextMenu(get_fmts)),
       InfoCtrl("card", "card"), InfoCtrl("driver", "driver"),
       InfoCtrl("path", "path"), InfoCtrl("real_path", "real_path") >>
    \o (IF Len(get_resolutions) > 0
        THEN << Ctrl("resolution", "menu", wh2str(dev.fmt), None, 0, 0, TextMenu(get_resolutions)) >>
        ELSE << >>)
    \o (IF Len(get_framerates) > 0
        THEN << Ctrl("fps", "menu", get_fps(dev.parm, FALSE), None, 0, 0, TextMenu(get_framerates)) >>
        ELSE << >>)

\* VIDIOC_S_FMT: the device takes the requested format (out.val = 0) or keeps
\* the one it has; the structure returned reports what it now uses
DevSetFmt(dev, fmt, out) == IF out.val = 0 THEN [dev EXCEPT !.fmt = fmt] ELSE dev

\* V4L2FmtCtrls.set_pixelformat(ctrl, pixelformat, errs), ctrl the i-th control
set_pixelformat(m, i, pixelformat, out) ==
    IF out.gfail THEN Warn(m, "V4L2FmtCtrls", "pixelformat", "cant_get")
    ELSE IF pixelformat = pxf2str(m.dev.fmt.pixelformat) THEN m
    ELSE LET fmt == [m.dev.fmt EXCEPT !.pixelformat = str2pxf(pixelformat)]
             m1 == Logged(m, "S_FMT", "fmt", "pixelformat", fmt)
         IN  IF out.fail THEN Warn(m1, "V4L2FmtCtrls", "pixelformat", "cant_set")
             ELSE LET m2 == [m1 EXCEPT !.dev = DevSetFmt(m1.dev, fmt, out)]
                  IN  IF pxf2str(m2.dev.fmt.pixelformat) # pixelformat
                      THEN Warn(m2, "V4L2FmtCtrls", "pixelformat", "cant_set")
                      ELSE SetValue(m2, "fmt", i, pixelformat)

\* V4L2FmtCtrls.set_resolution(ctrl, resolution, errs)
set_resolution(m, i, resolution, out) ==
    IF out.gfail THEN Warn(m, "V4L2FmtCtrls", "resolution", "cant_get")
    ELSE IF wh2str(m.dev.fmt) = resolution THEN m
    ELSE LET fmt == str2wh(resolution, m.dev.fmt)
             m1 == Logged(m, "S_FMT", "fmt", "resolution", fmt)
         IN  IF out.fail THEN Warn(m1, "V4L2FmtCtrls", "resolution", "cant_set")
             ELSE LET m2 == [m1 EXCEPT !.dev = DevSetFmt(m1.dev, fmt, out)]
                  IN  IF wh2str(m2.dev.fmt) # resolution
                      THEN Warn(m2, "V4L2FmtCtrls", "resolution", "cant_set")
                      ELSE SetValue(m2, "fmt", i, resolution)

\* v4l2_streamparm: the fields of parm.capture, with timeperframe's two
\* fields beside them
v4l2_streamparm(capability, capturemode, numerator, denominator, extendedmode, readbuffers) ==
    [capability |-> capability, capturemode |-> capturemode, numerator |-> numerator,
     denominator |-> denominator, extendedmode |-> extendedmode, readbuffers |-> readbuffers]

V4L2_CAP_TIMEPERFRAME == 4096

\* what VIDIOC_G_PARM fills in for a device that has a frame rate to set
DevGetParm(dev) ==
    v4l2_streamparm(V4L2_CAP_TIMEPERFRAME, 0, dev.parm.numerator, dev.parm.denominator, 0, 0)

timeperframe(parm) == [numerator |-> parm.numerator, denominator |-> parm.denominator]

\* V4L2FmtCtrls.set_fps(ctrl, fps, errs): a new v4l2_streamparm with
\* numerator 10 and denominator int(float(fps)*10)
set_fps(m, i, fps, out) ==
    IF fps = get_fps(m.dev.parm, out.gfail) THEN m
    ELSE LET parm == v4l2_streamparm(0, 0, 10, FpsTenths(fps), 0, 0)
             m1 == Logged(m, "S_PARM", "fmt", "fps", parm)
         IN  IF out.fail THEN Warn(m1, "V4L2FmtCtrls", "fps", "cant_set")
             ELSE LET tf == IF out.val = 0 THEN timeperframe(parm) ELSE m1.dev.parm
                      m2 == [m1 EXCEPT !.dev.parm = tf]
                  IN  IF tf.denominator = 0 \/ tf.numerator = 0
                      THEN Warn(m2, "V4L2FmtCtrls", "fps", "invalid")
                      ELSE IF FpsHundredths(fps) * tf.numerator # 100 * tf.denominator
                      THEN Warn(m2, "V4L2FmtCtrls", "fps", "cant_set")
                      ELSE SetValue(m2, "fmt", i, fps)

\* one iteration of the loop of V4L2FmtCtrls.setup_ctrls
FmtSetupKey(m, k, v, out) ==
    LET i == find_by_text_id(m.reg.fmt, k)
        ctrl == m.reg.fmt[i]
    IN  IF i = 0 THEN m
        ELSE IF ctrl.type = "info" THEN Warn(m, "V4L2FmtCtrls", k, "info")
        ELSE IF find_by_text_id(ctrl.menu, v) = 0 THEN Warn(m, "V4L2FmtCtrls", k, "cant_find")
        ELSE IF ctrl.text_id = "pixelformat" THEN set_pixelformat(m, i, v, out)
        ELSE IF ctrl.text_id = "resolution" THEN set_resolution(m, i, v, out)
        ELSE IF ctrl.text_id = "fps" THEN set_fps(m, i, v, out)
        ELSE m

RECURSIVE FmtSetupFrom(_, _, _, _)
FmtSetupFrom(m, params, outs, j) ==
    IF j > Len(params) \/ m.raised THEN m
    ELSE FmtSetupFrom(FmtSetupKey(m, params[j][1], params[j][2], outs[j]), params, outs, j + 1)

Fmt_setup_ctrls(m, params, outs) == FmtSetupFrom(m, params, outs, 1)

(***************************************************************************)
(* The vendor extension-unit backends.  A device is described by its       *)
(* vendor:product id and, per extension-unit GUID, the unit id found in    *)
(* the descriptors (0 when the GUID does not occur): find_usb_ids_in_sysfs *)
(* and find_unit_id_in_sysfs.  UVC_EU1_GUID and DELL_ULTRASHARP_GUID are   *)
(* the same 16 bytes, the GUID "eu1".                                      *)
(***************************************************************************)
Guids == {"eu1", "logitech_peripheral", "logitech_user_hw", "logitech_brio", "ankerwork"}

KIYO_PRO_USB_ID == "1532:0e05"
DELL_ULTRASHARP_DEV_MATCH == {"413c:c015"}
ANKERWORK_DEV_MATCH == {"291a:3367"}
LOGITECH_BRIO_FOV_DEV_MATCH == {"046d:085e", "046d:0943", "046d:0946", "046d:0919", "046d:086b", "046d:0944"}

\* the register a query's unit and selector address
XuReg(unit, sel) == unit * 256 + sel

\* the requests of UVCIOC_CTRL_QUERY
UVC_SET_CUR == 1
UVC_GET_CUR == 129
UVC_GET_MIN == 130
UVC_GET_MAX == 131
UVC_GET_LEN == 133

\* one UVCIOC_CTRL_QUERY as the device sees it: the register, the request,
\* the size field, whether the ioctl failed, and for UVC_GET_LEN the length
\* the device answered (0 when it failed: c_uint16(0) is left as it was)
XuQuery(reg, query, size, failed, answer) ==
    [unit |-> reg \div 256, selector |-> reg % 256, query |-> query, size |-> size,
     failed |-> failed, answer |-> answer]

\* get_length_xu_control(fd, unit_id, selector) on the registers xu: the
\* ioctl it issues; its return value is the ioctl's answer
get_length_xu_control(xu, reg, failed) ==
    XuQuery(reg, UVC_GET_LEN, 2, failed, IF failed THEN 0 ELSE Len(xu[reg]))

\* query_xu_control with the size of get_length_xu_control's own query
query_xu_control_FixedSize(ioctls, xu, reg, query, lenfailed, failed) ==
    LET len == get_length_xu_control(xu, reg, lenfailed)
    IN  ioctls \o << len, XuQuery(reg, query, 2, failed, 0) >>

\* query_xu_control(fd, unit_id, selector, query, data): the ioctls issued
\* so far and the two it adds
query_xu_control(ioctls, xu, reg, query, lenfailed, failed) ==
    LET len == get_length_xu_control(xu, reg, lenfailed)
    IN  ioctls \o << len, XuQuery(reg, query, len.answer, failed, 0) >>

\* query_xu_control(.., UVC_SET_CUR, data): the write is logged; the device
\* stores data unless the call fails or the device ignores it (a failed call
\* is only logged by the code, nothing is raised)
XuSet(m, b, key, reg, data, out) ==
    LET m1 == Logged(m, "SET_CUR", b, key, data)
    IN  IF out.fail \/ out.val # 0 \/ reg \notin DOMAIN m.dev.xu THEN m1
        ELSE [m1 EXCEPT !.dev.xu[reg] = data]

\* query_xu_control(.., UVC_GET_CUR, buf): the buffer after the call, which is
\* left as it was when the call fails
XuGet(m, reg, buf, failed) == IF failed THEN buf ELSE m.dev.xu[reg]

\* k bytes b
RECURSIVE Fill(_, _)
Fill(k, b) == IF k = 0 THEN << >> ELSE Append(Fill(k - 1, b), b)

Zeros(k) == Fill(k, 0)

(***************************************************************************)
(* The extension unit's id in the usb descriptors.  Bytes are numbers in   *)
(* 0..255 and a bytes object is a sequence of them, indexed from 0 by the  *)
(* code and from 1 here.                                                   *)
(***************************************************************************)
UVC_EU1_GUID == <<208, 158, 228, 35, 120, 17, 49, 79, 174, 82, 210, 251, 138, 141, 59, 72>>
ANKERWORK_GUID == <<162, 158, 118, 65, 222, 4, 71, 227, 139, 43, 244, 52, 26, 255, 0, 59>>

\* bytes.find(sub): the lowest index where sub starts, -1 when there is none
bytes_find(data, sub) ==
    LET starts == {i \in 0..(Len(data) - Len(sub)) : SubSeq(data, i + 1, i + Len(sub)) = sub}
    IN  IF starts = {} THEN -1 ELSE CHOOSE i \in starts : \A j \in starts : i <= j

\* data[i] of Python, where a negative index counts from the end
bytes_at(data, i) == IF i < 0 THEN data[Len(data) + i + 1] ELSE data[i + 1]

\* the descriptors file: whether it is a file, whether it can be read, and
\* its content
DescFile(isfile, readable, descriptors) ==
    [isfile |-> isfile, readable |-> readable, descriptors |-> descriptors]

\* the function with "guid_start >= 0" for its test
find_unit_id_in_sysfs_FromZero(descfile, guid) ==
    IF ~descfile.isfile THEN [ret |-> 0, warned |-> FALSE]
    ELSE IF ~descfile.readable THEN [ret |-> 0, warned |-> TRUE]
    ELSE LET guid_start == bytes_find(descfile.descriptors, guid)
         IN  IF guid_start >= 0
             THEN [ret |-> bytes_at(descfile.descriptors, guid_start - 1), warned |-> FALSE]
             ELSE [ret |-> 0, warned |-> FALSE]

\* find_unit_id_in_sysfs: its return value, and whether it logged a warning
find_unit_id_in_sysfs(descfile, guid) ==
    IF ~descfile.isfile THEN [ret |-> 0, warned |-> FALSE]
    ELSE IF ~descfile.readable THEN [ret |-> 0, warned |-> TRUE]
    ELSE LET guid_start == bytes_find(descfile.descriptors, guid)
         IN  IF guid_start > 0
             THEN [ret |-> bytes_at(descfile.descriptors, guid_start - 1), warned |-> FALSE]
             ELSE [ret |-> 0, warned |-> FALSE]

(************************* KiyoProCtrls ************************************)
\* supported() without the test of the vendor:product id
Kiyo_supported_AnyId(device) == device.units["eu1"] # 0

\* KiyoProCtrls.supported()
Kiyo_supported(device) == device.units["eu1"] # 0 /\ device.usb_ids = KIYO_PRO_USB_ID

\* the menus modelled: the field of view (with its pre commands), HDR, and
\* the save button; af_mode and hdr_mode have the shape of hdr
Kiyo_get_device_controls(device) ==
    IF ~Kiyo_supported(device) THEN << >>
    ELSE << Ctrl("kiyo_pro_hdr", "menu", None, None, 0, 0,
                 << Menu(Str("off"), <<"bytes", "HDR_OFF">>), Menu(Str("on"), <<"bytes", "HDR_ON">>) >>),
            Ctrl("kiyo_pro_fov", "menu", None, None, 0, 0,
                 << MenuB(Str("narrow"), <<"bytes", "FOV_NARROW">>, <<"bytes", "FOV_NARROW_PRE">>),
                    MenuB(Str("medium"), <<"bytes", "FOV_MEDIUM">>, <<"bytes", "FOV_MEDIUM_PRE">>),
                    Menu(Str("wide"), <<"bytes", "FOV_WIDE">>) >>),
            Ctrl("kiyo_pro_save", "button", None, None, 0, 0,
                 << Menu(Str("save"), <<"bytes", "SAVE">>) >>) >>

EU1_SET_ISP == 1

\* the loop body with the main command sent before the pre command
KiyoSetupKey_PreLast(m, k, v, out) ==
    LET i == find_by_text_id(m.reg.kiyo, k)
        ctrl == m.reg.kiyo[i]
        j == find_by_text_id(ctrl.menu, v)
        menu == ctrl.menu[j]
        reg == XuReg(m.device.units["eu1"], EU1_SET_ISP)
        m1 == XuSet(SetValue(m, "kiyo", i, menu.text_id), "kiyo", k, reg, menu.value, out)
    IN  IF i = 0 THEN m
        ELSE IF j = 0 THEN Warn(m, "KiyoProCtrls", k, "cant_find")
        ELSE IF menu.before # None THEN XuSet(m1, "kiyo", k, reg, menu.before, out) ELSE m1

\* one iteration of the loop of KiyoProCtrls.setup_ctrls
KiyoSetupKey(m, k, v, out) ==
    LET i == find_by_text_id(m.reg.kiyo, k)
        ctrl == m.reg.kiyo[i]
        j == find_by_text_id(ctrl.menu, v)
        menu == ctrl.menu[j]
        reg == XuReg(m.device.units["eu1"], EU1_SET_ISP)
        m1 == SetValue(m, "kiyo", i, menu.text_id)
        m2 == IF menu.before # None THEN XuSet(m1, "kiyo", k, reg, menu.before, out) ELSE m1
    IN  IF i = 0 THEN m
        ELSE IF j = 0 THEN Warn(m, "KiyoProCtrls", k, "cant_find")
        ELSE XuSet(m2, "kiyo", k, reg, menu.value, out)

RECURSIVE KiyoSetupFrom(_, _, _, _)
KiyoSetupFrom(m, params, outs, j) ==
    IF j > Len(params) \/ m.raised THEN m
    ELSE KiyoSetupFrom(KiyoSetupKey(m, params[j][1], params[j][2], outs[j]), params, outs, j + 1)

Kiyo_setup_ctrls(m, params, outs) ==
    IF ~Kiyo_supported(m.device) THEN m ELSE KiyoSetupFrom(m, params, outs, 1)

(************************* DellUltraSharpCtrls *****************************)
Dell_supported(device) ==
    device.units["eu1"] # 0 /\ device.usb_ids \in DELL_ULTRASHARP_DEV_MATCH

\* the menus modelled: the field of view and HDR; the other four have the
\* shape of hdr
Dell_get_device_controls(device) ==
    IF ~Dell_supported(device) THEN << >>
    ELSE << Ctrl("dell_ultrasharp_fov", "menu", None, None, 0, 0,
                 << Menu(Num(65), <<"bytes", "DELL_FOV_65">>), Menu(Num(78), <<"bytes", "DELL_FOV_78">>),
                    Menu(Num(90), <<"bytes", "DELL_FOV_90">>) >>),
            Ctrl("dell_ultrasharp_hdr", "menu", None, None, 0, 0,
                 << Menu(Str("off"), <<"bytes", "DELL_HDR_OFF">>), Menu(Str("on"), <<"bytes", "DELL_HDR_ON">>) >>) >>

DELL_ULTRASHARP_SET == 1

DellSetupKey(m, k, v, out) ==
    LET i == find_by_text_id(m.reg.dell, k)
        ctrl == m.reg.dell[i]
        j == find_by_text_id(ctrl.menu, v)
        menu == ctrl.menu[j]
    IN  IF i = 0 THEN m
        ELSE IF j = 0 THEN Warn(m, "DellUltraSharpCtrls", k, "cant_find")
        ELSE XuSet(SetValue(m, "dell", i, menu.text_id), "dell", k,
                   XuReg(m.device.units["eu1"], DELL_ULTRASHARP_SET), menu.value, out)

RECURSIVE DellSetupFrom(_, _, _, _)
DellSetupFrom(m, params, outs, j) ==
    IF j > Len(params) \/ m.raised THEN m
    ELSE DellSetupFrom(DellSetupKey(m, params[j][1], params[j][2], outs[j]), params, outs, j + 1)

Dell_setup_ctrls(m, params, outs) ==
    IF ~Dell_supported(m.device) THEN m ELSE DellSetupFrom(m, params, outs, 1)

(************************* LogitechCtrls ***********************************)
LOGITECH_PERIPHERAL_LED1_SEL == 9
LOGITECH_PERIPHERAL_LED1_LEN == 5
LOGITECH_PERIPHERAL_LED1_MODE_OFFSET == 1
LOGITECH_PERIPHERAL_LED1_FREQUENCY_OFFSET == 3
LOGITECH_PERIPHERAL_PANTILT_RESET_SEL == 2
LOGITECH_HW_CONTROL_LED1_SEL == 1
LOGITECH_HW_CONTROL_LED1_LEN == 3
LOGITECH_HW_CONTROL_LED1_MODE_OFFSET == 0
LOGITECH_HW_CONTROL_LED1_FREQUENCY_OFFSET == 2
LOGITECH_BRIO_FOV_SEL == 5
LOGITECH_BRIO_FOV_LEN == 1
LOGITECH_BRIO_FOV_OFFSET == 0

LogitechCtrl(text_id, type, unit, sel, off, menu) ==
    [Ctrl(text_id, type, None, None, 0, 0, menu) EXCEPT !.unit = unit, !.sel = sel, !.off = off]

LedModeMenu ==
    << Menu(Str("off"), PyInt(0)), Menu(Str("on"), PyInt(1)),
       Menu(Str("blink"), PyInt(2)), Menu(Str("auto"), PyInt(3)) >>

\* the controls appended by get_device_controls, before their values are
\* read.  Modelled: the LED controls of the peripheral unit and of the user
\* hw unit, the pan/tilt reset button and the BRIO field of view (the
\* relative pan/tilt and preset buttons have the shape of the reset button,
\* the motor focus that of the LED frequency).  try_xu_control succeeds for
\* the selectors in device.probes.
LogitechList(device) ==
    LET p == device.units["logitech_peripheral"]
        h == device.units["logitech_user_hw"]
        b == device.units["logitech_brio"]
    IN  (IF p # 0 /\ LOGITECH_PERIPHERAL_LED1_SEL \in device.probes
         THEN << LogitechCtrl("logitech_led1_mode", "menu", p, LOGITECH_PERIPHERAL_LED1_SEL,
                              LOGITECH_PERIPHERAL_LED1_MODE_OFFSET, LedModeMenu),
                 LogitechCtrl("logitech_led1_frequency", "integer", p, LOGITECH_PERIPHERAL_LED1_SEL,
                              LOGITECH_PERIPHERAL_LED1_FREQUENCY_OFFSET, << >>) >>
         ELSE << >>)
        \o (IF p # 0 /\ LOGITECH_PERIPHERAL_PANTILT_RESET_SEL \in device.probes
            THEN << LogitechCtrl("logitech_pantilt_reset", "button", p, LOGITECH_PERIPHERAL_PANTILT_RESET_SEL, 0,
                                 << Menu(Str("pan"), <<"bytes", "RESET_PAN">>),
                                    Menu(Str("tilt"), <<"bytes", "RESET_TILT">>),
                                    Menu(Str("both"), <<"bytes", "RESET_BOTH">>) >>) >>
            ELSE << >>)
        \o (IF h # 0
            THEN << LogitechCtrl("logitech_led1_mode", "menu", h, LOGITECH_HW_CONTROL_LED1_SEL,
                                 LOGITECH_HW_CONTROL_LED1_MODE_OFFSET, LedModeMenu),
                    LogitechCtrl("logitech_led1_frequency", "integer", h, LOGITECH_HW_CONTROL_LED1_SEL,
                                 LOGITECH_HW_CONTROL_LED1_FREQUENCY_OFFSET, << >>) >>
            ELSE << >>)
        \o (IF b # 0 /\ device.usb_ids \in LOGITECH_BRIO_FOV_DEV_MATCH
            THEN << LogitechCtrl("logitech_brio_fov", "menu", b, LOGITECH_BRIO_FOV_SEL, LOGITECH_BRIO_FOV_OFFSET,
                                 << Menu(Num(65), PyInt(2)), Menu(Num(78), PyInt(1)), Menu(Num(90), PyInt(0)) >>) >>
            ELSE << >>)

\* a register byte as the control's value: the text id of the menu entry with
\* that value, the raw byte when the control is no menu or no entry has it
LogitechResolve(c, byte) ==
    IF c.type = "menu" /\ find_by_value(c.menu, PyInt(byte)) # 0
    THEN c.menu[find_by_value(c.menu, PyInt(byte))].text_id
    ELSE PyInt(byte)

\* LogitechCtrls.get_device_controls: the list, with every non-button
\* control's value read with UVC_GET_CUR from the registers xu
Logitech_get_device_controls(device, xu) ==
    LET l == LogitechList(device)
    IN  [i \in 1..Len(l) |->
            IF l[i].type = "button" THEN l[i]
            ELSE [l[i] EXCEPT !.value = LogitechResolve(l[i], xu[XuReg(l[i].unit, l[i].sel)][l[i].off + 1])]]

\* the part of the loop body after desired is known, for a menu or integer
\* control: get, replace one byte, set, get again and compare
LogitechWrite(m, i, k, desired, out) ==
    LET ctrl == m.reg.logitech[i]
        reg == XuReg(ctrl.unit, ctrl.sel)
        cur0 == XuGet(m, reg, Zeros(Len(m.dev.xu[reg])), out.gfail)
        config == [cur0 EXCEPT ![ctrl.off + 1] = IntOf(desired)]
        m1 == XuSet(m, "logitech", k, reg, config, out)
        current == XuGet(m1, reg, config, out.gfail)[ctrl.off + 1]
        des == LogitechResolve(ctrl, IntOf(desired))
    IN  IF IntOf(desired) \notin 0..255 THEN Raise(m)
        ELSE IF LogitechResolve(ctrl, current) # des
        THEN Warn(m1, "LogitechCtrls", k, "failed_to_set")
        ELSE SetValue(m1, "logitech", i, des)

LogitechSetupKey(m, k, v, out) ==
    LET i == find_by_text_id(m.reg.logitech, k)
        ctrl == m.reg.logitech[i]
        j == find_by_text_id(ctrl.menu, v)
    IN  IF i = 0 THEN m
        ELSE IF ctrl.type \in {"menu", "button"}
        THEN (IF j = 0 THEN Warn(m, "LogitechCtrls", k, "cant_find")
              ELSE IF ctrl.type = "button"
              THEN XuSet(m, "logitech", k, XuReg(ctrl.unit, ctrl.sel), ctrl.menu[j].value, out)
              ELSE LogitechWrite(m, i, k, ctrl.menu[j].value, out))
        ELSE IF ctrl.type = "integer"
        THEN (IF CanInt(v) THEN LogitechWrite(m, i, k, PyInt(IntOf(v)), out) ELSE Raise(m))
        ELSE Warn(m, "LogitechCtrls", k, "unsupported")

RECURSIVE LogitechSetupFrom(_, _, _, _)
LogitechSetupFrom(m, params, outs, j) ==
    IF j > Len(params) \/ m.raised THEN m
    ELSE LogitechSetupFrom(LogitechSetupKey(m, params[j][1], params[j][2], outs[j]), params, outs, j + 1)

\* supported() is len(self.ctrls) != 0
Logitech_setup_ctrls(m, params, outs) ==
    IF Len(m.reg.logitech) = 0 THEN m ELSE LogitechSetupFrom(m, params, outs, 1)

(************************* AnkerWorkCtrls **********************************)
ANKERWORK_FOV_SELECTOR == 16
ANKERWORK_HOR_SELECTOR == 17
ANKERWORK_FACE_EXPOSURE_COMP_SELECTOR == 11
ANKERWORK_HDR_SELECTOR == 19
ANKERWORK_MIC_PICKUP_MODE_SELECTOR == 31
ANKERWORK_MIC_PICKUP_90 == 90

ANKERWORK_SOLO_FRAME == <<2, 1, 95, 0, 0, 0, 0>>
ANKERWORK_FOV_65 == <<0, 1, 95, 0, 0, 0, 0>>
ANKERWORK_FOV_78 == <<0, 1, 78, 0, 0, 0, 0>>
ANKERWORK_FOV_95 == <<0, 1, 65, 0, 0, 0, 0>>

Anker_supported(device) ==
    device.units["ankerwork"] # 0 /\ device.usb_ids \in ANKERWORK_DEV_MATCH

AnkerWorkCtrl(text_id, type, sel, menu) ==
    [Ctrl(text_id, type, None, None, 0, 0, menu) EXCEPT !.sel = sel]

OffOnMenu == << Menu(Str("off"), PyInt(0)), Menu(Str("on"), PyInt(1)) >>

\* the controls modelled: face_focus and mic_noisered have the shape of hdr
AnkerList ==
    << AnkerWorkCtrl("ankerwork_fov", "menu", ANKERWORK_FOV_SELECTOR,
                     << Menu(Num(65), <<"bytes", ANKERWORK_FOV_65>>), Menu(Num(78), <<"bytes", ANKERWORK_FOV_78>>),
                        Menu(Num(95), <<"bytes", ANKERWORK_FOV_95>>), Menu(Str("auto"), <<"bytes", ANKERWORK_SOLO_FRAME>>) >>),
       AnkerWorkCtrl("ankerwork_mic_pickup", "menu", ANKERWORK_MIC_PICKUP_MODE_SELECTOR,
                     << Menu(Num(90), PyInt(ANKERWORK_MIC_PICKUP_90)), Menu(Num(360), PyInt(0)) >>),
       AnkerWorkCtrl("ankerwork_hdr", "menu", ANKERWORK_HDR_SELECTOR, OffOnMenu),
       AnkerWorkCtrl("ankerwork_face_compensation_enable", "menu", ANKERWORK_FACE_EXPOSURE_COMP_SELECTOR, OffOnMenu),
       [AnkerWorkCtrl("ankerwork_face_compensation", "integer", ANKERWORK_FACE_EXPOSURE_COMP_SELECTOR, << >>)
            EXCEPT !.min = 0, !.max = 100, !.default = Num(35)],
       AnkerWorkCtrl("ankerwork_hor_flip", "menu", ANKERWORK_HOR_SELECTOR, OffOnMenu) >>

\* _int_from_bytes of a register of one or two bytes
int_from_bytes(bytes) == IF Len(bytes) = 0 THEN 0
                         ELSE IF Len(bytes) = 1 THEN bytes[1]
                         ELSE bytes[1] + 256 * bytes[2]

\* _map_int_to_comp
map_int_to_comp(value) == value \div 256

\* _map_comp_to_int, once its assertion 0 <= value <= 100 has passed
map_comp_to_int(value) == value * 256

\* the value get_device_controls gives control c from the register bytes cur:
\* <<"deg", n>> is the str 'n°', <<"ev", n>> the str 'n.0 EV'
AnkerValue(c, cur) ==
    LET v == IF c.text_id = "ankerwork_hdr"
             THEN (IF int_from_bytes(cur) = 1 THEN Str("on") ELSE Str("off"))
             ELSE IF c.text_id = "ankerwork_mic_pickup"
             THEN (IF int_from_bytes(cur) = ANKERWORK_MIC_PICKUP_90 THEN <<"deg", 90>> ELSE <<"deg", 360>>)
             ELSE IF c.text_id = "ankerwork_face_compensation"
             THEN <<"ev", map_int_to_comp(int_from_bytes(cur))>>
             ELSE IF c.text_id = "ankerwork_face_compensation_enable"
             THEN (IF int_from_bytes(cur) % 256 = 1 THEN Str("on") ELSE Str("off"))
             ELSE IF c.text_id = "ankerwork_fov"
             THEN (IF cur = ANKERWORK_FOV_65 THEN <<"deg", 65>>
                   ELSE IF cur = ANKERWORK_FOV_78 THEN <<"deg", 78>>
                   ELSE IF cur = ANKERWORK_FOV_95 THEN <<"deg", 95>>
                   ELSE IF cur = ANKERWORK_SOLO_FRAME THEN Str("auto")
                   ELSE Str("?"))
             ELSE PyInt(int_from_bytes(cur))
    IN  IF c.type = "menu" /\ find_by_value(c.menu, v) # 0
        THEN c.menu[find_by_value(c.menu, v)].text_id
        ELSE v

\* AnkerWorkCtrls.get_device_controls on the registers xu
Anker_get_device_controls(device, xu) ==
    IF ~Anker_supported(device) THEN << >>
    ELSE [i \in 1..Len(AnkerList) |->
            [AnkerList[i] EXCEPT !.value =
                AnkerValue(AnkerList[i], xu[XuReg(device.units["ankerwork"], AnkerList[i].sel)])]]

\* to_buf(b) is ctypes.create_string_buffer(b): for a bytes object the buffer
\* holds the bytes and a NUL after them; for an int n it is n zero bytes
to_buf(b) == IF b[1] = "bytes" THEN Append(b[2], 0) ELSE Zeros(b[2])

\* the register after UVC_SET_CUR of a buffer: its first bytes are the
\* buffer's; where the buffer is shorter than the register the device gets
\* whatever follows the buffer in memory, the byte pad
PadTo(buf, k, pad) == IF Len(buf) >= k THEN SubSeq(buf, 1, k) ELSE buf \o Fill(k - Len(buf), pad)

\* a buffer after UVC_GET_CUR wrote the bytes data over its start
ReadInto(buf, data) ==
    IF Len(data) >= Len(buf) THEN SubSeq(data, 1, Len(buf))
    ELSE data \o SubSeq(buf, Len(data) + 1, Len(buf))

\* the part of the loop body after desired (a buffer) is known: set, get
\* into the same buffer, compare the buffer with itself, assign the buffer
AnkerWrite(m, i, k, desired, out) ==
    LET ctrl == m.reg.anker[i]
        reg == XuReg(m.device.units["ankerwork"], ctrl.sel)
        m1 == XuSet(m, "anker", k, reg, PadTo(desired, Len(m.dev.xu[reg]), out.pad), out)
        current == ReadInto(desired, XuGet(m1, reg, desired, out.gfail))
    IN  SetValue(m1, "anker", i, <<"buf", current>>)

AnkerSetupKey(m, k, v, out) ==
    LET i == find_by_text_id(m.reg.anker, k)
        ctrl == m.reg.anker[i]
        reg == XuReg(m.device.units["ankerwork"], ctrl.sel)
        current_config == XuGet(m, reg, Zeros(Len(m.dev.xu[reg])), out.gfail)
        j == find_by_text_id(ctrl.menu, v)
        cur_enable == int_from_bytes(current_config) % 256
    IN  IF i = 0 THEN m
        ELSE IF ctrl.type \in {"menu", "button"}
        THEN (IF j = 0 THEN Warn(m, "AnkerWorkCtrls", k, "cant_find")
              ELSE IF ctrl.text_id = "ankerwork_face_compensation_enable"
              THEN AnkerWrite(m, i, k, [current_config EXCEPT ![1] = IntOf(ctrl.menu[j].value)], out)
              ELSE AnkerWrite(m, i, k, to_buf(ctrl.menu[j].value), out))
        ELSE IF ctrl.type = "integer"
        THEN (IF ~CanInt(v) \/ IntOf(v) \notin 0..100 THEN Raise(m)
              \* _bytes_from_int: to_bytes(1, ..) raises for a number above 255
              ELSE IF map_comp_to_int(IntOf(v)) + cur_enable > 255 THEN Raise(m)
              ELSE AnkerWrite(m, i, k, to_buf(<<"bytes", << map_comp_to_int(IntOf(v)) + cur_enable >> >>), out))
        ELSE Warn(m, "AnkerWorkCtrls", k, "unsupported")

RECURSIVE AnkerSetupFrom(_, _, _, _)
AnkerSetupFrom(m, params, outs, j) ==
    IF j > Len(params) \/ m.raised THEN m
    ELSE AnkerSetupFrom(AnkerSetupKey(m, params[j][1], params[j][2], outs[j]), params, outs, j + 1)

Anker_setup_ctrls(m, params, outs) ==
    IF ~Anker_supported(m.device) THEN m ELSE AnkerSetupFrom(m, params, outs, 1)

(***************************************************************************)
(* The preset and service backends. Two of them call back into the         *)
(* aggregator's apply, which is defined after them.                        *)
(***************************************************************************)
RECURSIVE CameraCtrls_setup_ctrls(_, _, _)

(************************* SystemdSaver ************************************)
\* device.systemd is systemd_available(), device.active is_service_active()
Systemd_ctrls(device) ==
    IF ~device.systemd THEN << >>
    ELSE << [Ctrl("systemd_cameractrlsd", "boolean", PyBool(BoolInt(device.active)), None, 0, 0, << >>)
                EXCEPT !.unrestorable = TRUE] >>

\* one iteration of SystemdSaver.setup_ctrls; out.fail: the systemctl
\* commands of create_systemd_service or disable_systemd_service fail
SystemdSetupKey(m, k, v, out) ==
    LET i == find_by_text_id(m.reg.systemd, k)
        m1 == SetValue(m, "systemd", i, PyBool(BoolInt(to_bool(v))))
    IN  IF i = 0 THEN m
        ELSE IF to_bool(v)
        THEN (IF out.fail THEN Warn(SetValue(m1, "systemd", i, PyBool(0)), "SystemdSaver", k, "systemctl")
              ELSE m1)
        ELSE (IF out.fail THEN Warn(m1, "SystemdSaver", k, "systemctl") ELSE m1)

RECURSIVE SystemdSetupFrom(_, _, _, _)
SystemdSetupFrom(m, params, outs, j) ==
    IF j > Len(params) \/ m.raised THEN m
    ELSE SystemdSetupFrom(SystemdSetupKey(m, params[j][1], params[j][2], outs[j]), params, outs, j + 1)

Systemd_setup_ctrls(m, params, outs) == SystemdSetupFrom(m, params, outs, 1)

(************************* ColorPreset *************************************)
V4L2_CID_BRIGHTNESS == 9963776
V4L2_CID_CONTRAST == 9963777

\* v4l_defaults, without sharpness, which has the shape of contrast
v4l_defaults ==
    << <<V4L2_CID_BRIGHTNESS, Str("default")>>, <<V4L2_CID_SATURATION, Str("default")>>,
       <<V4L2_CID_CONTRAST, Str("default")>>, <<V4L2_CID_AUTO_WHITE_BALANCE, Str("default")>> >>

\* the PresetMenu entries modelled: the others have the shape of bright
v4l_presets ==
    << [text_id |-> Str("default"), value |-> None, v4l_presets |-> << >>],
       [text_id |-> Str("bright"), value |-> Str("bright"),
        v4l_presets |-> << <<V4L2_CID_BRIGHTNESS, Pct(71)>>, <<V4L2_CID_CONTRAST, Pct(59)>> >>],
       [text_id |-> Str("gray"), value |-> Str("gray"),
        v4l_presets |-> << <<V4L2_CID_SATURATION, Pct(0)>> >>] >>

\* a dict as the sequence of its (key, value) pairs in insertion order
RECURSIVE DictFind(_, _, _)
DictFind(d, k, i) == IF i > Len(d) THEN 0 ELSE IF d[i][1] = k THEN i ELSE DictFind(d, k, i + 1)

DictPut(d, k, v) ==
    IF DictFind(d, k, 1) = 0 THEN Append(d, <<k, v>>)
    ELSE [d EXCEPT ![DictFind(d, k, 1)] = <<k, v>>]

\* {**a, **b}
RECURSIVE DictMerge(_, _, _)
DictMerge(a, b, i) == IF i > Len(b) THEN a ELSE DictMerge(DictPut(a, b[i][1], b[i][2]), b, i + 1)

RECURSIVE resolve_from(_, _, _)
resolve_from(v4l, preset, i) ==
    IF i > Len(preset) THEN << >>
    ELSE LET rest == resolve_from(v4l, preset, i + 1)
             c == find_by_v4l2_id(v4l, preset[i][1])
         IN  IF c = 0 THEN rest
             ELSE DictMerge(<< <<v4l[c].text_id, preset[i][2]>> >>, rest, 1)

\* resolve_v4l_ids(v4l_ctrls, preset)
resolve_v4l_ids(v4l, preset) == resolve_from(v4l, preset, 1)

\* self.presets after __init__: the entries whose ids all resolve
ColorPresets(v4l) ==
    SelectSeq([i \in 1..Len(v4l_presets) |->
                  [text_id |-> v4l_presets[i].text_id, value |-> v4l_presets[i].value,
                   v4l_presets |-> v4l_presets[i].v4l_presets,
                   presets |-> resolve_v4l_ids(v4l, v4l_presets[i].v4l_presets)]],
              LAMBDA p : Len(p.v4l_presets) = Len(p.presets))

Color_ctrls(v4l) ==
    IF Len(ColorPresets(v4l)) > 1
    THEN << Ctrl("color_preset", "button", None, Str("default"), 0, 0,
                 [i \in 1..Len(ColorPresets(v4l)) |->
                     Menu(ColorPresets(v4l)[i].text_id, ColorPresets(v4l)[i].value)]) >>
    ELSE << >>

\* one iteration of ColorPreset.setup_ctrls: the nested apply of the preset
\* over the defaults; the device answers each of its writes as out says
ColorSetupKey(m, k, v, out) ==
    LET i == find_by_text_id(m.reg.color, k)
        j == find_by_text_id(m.reg.color[i].menu, v)
        batch == DictMerge(resolve_v4l_ids(m.reg.v4l, v4l_defaults), ColorPresets(m.reg.v4l)[j].presets, 1)
    IN  IF i = 0 THEN m
        ELSE IF j = 0 THEN Warn(m, "ColorPreset", k, "cant_find")
        ELSE CameraCtrls_setup_ctrls(m, batch, [n \in 1..Len(batch) |-> out])

RECURSIVE ColorSetupFrom(_, _, _, _)
ColorSetupFrom(m, params, outs, j) ==
    IF j > Len(params) \/ m.raised THEN m
    ELSE ColorSetupFrom(ColorSetupKey(m, params[j][1], params[j][2], outs[j]), params, outs, j + 1)

Color_setup_ctrls(m, params, outs) == ColorSetupFrom(m, params, outs, 1)

(************************* ConfigPreset ************************************)
\* the menu modelled: presets 2 to 4 have the shape of preset 1
Config_ctrls ==
    << Ctrl("preset", "button", None, None, 0, 0,
            << Menu(Str("load_1"), Str("load_1")), Menu(Str("save_1"), Str("save_1")) >>) >>

\* menu.text_id.split('_')[0]
PresetOp(text_id) == IF text_id = Str("load_1") THEN "load" ELSE "save"

\* the controls of all backends in registry order, CameraCtrls.get_ctrls()
get_ctrls(reg) ==
    reg.v4l \o reg.fmt \o reg.kiyo \o reg.logitech \o reg.dell \o reg.anker
        \o reg.systemd \o reg.color \o reg.config \o reg.portal

\* str(value), as configparser stores a value
PyStr(v) == IF v[1] = "int" THEN Num(v[2])
            ELSE IF v[1] = "bool" THEN (IF v[2] = 1 THEN Str("True") ELSE Str("False"))
            ELSE IF v[1] = "buf" THEN Str("<ctypes object>")
            ELSE v

RECURSIVE ClaimedFrom(_, _)
ClaimedFrom(ctrls, i) ==
    IF i = 0 THEN << >>
    ELSE LET c == ctrls[i]
             d == ClaimedFrom(ctrls, i - 1)
         IN  IF ~c.inactive /\ ~c.readonly /\ c.value # None /\ c.type # "info" /\ ~c.unrestorable
             THEN DictPut(d, c.text_id, c.value)
             ELSE d

\* ConfigPreset.get_claimed_controls()
get_claimed_controls(reg) == ClaimedFrom(get_ctrls(reg), Len(get_ctrls(reg)))

\* save_preset: out.fail is a failure to write the file
save_preset(m, out) ==
    IF out.fail THEN Warn(m, "ConfigPreset", "preset", "save_failed")
    ELSE [m EXCEPT !.cfg = [file |-> TRUE, has |-> TRUE,
                            preset |-> [i \in 1..Len(get_claimed_controls(m.reg)) |->
                                          << get_claimed_controls(m.reg)[i][1],
                                             PyStr(get_claimed_controls(m.reg)[i][2]) >>]]]

\* the loop of load_preset: one apply of a one-pair batch per stored control
RECURSIVE LoadFrom(_, _, _, _)
LoadFrom(m, preset, out, i) ==
    IF i > Len(preset) \/ m.raised THEN m
    ELSE LoadFrom(CameraCtrls_setup_ctrls(m, << preset[i] >>, << out >>), preset, out, i + 1)

load_preset(m, out) ==
    IF ~m.cfg.file THEN Warn(m, "ConfigPreset", "preset", "no_file")
    ELSE IF ~m.cfg.has THEN Warn(m, "ConfigPreset", "preset", "no_preset")
    ELSE LoadFrom(m, m.cfg.preset, out, 1)

ConfigSetupKey(m, k, v, out) ==
    LET i == find_by_text_id(m.reg.config, k)
        j == find_by_text_id(m.reg.config[i].menu, v)
    IN  IF i = 0 THEN m
        ELSE IF j = 0 THEN Warn(m, "ConfigPreset", k, "cant_find")
        ELSE IF PresetOp(m.reg.config[i].menu[j].text_id) = "load" THEN load_preset(m, out)
        ELSE save_preset(m, out)

RECURSIVE ConfigSetupFrom(_, _, _, _)
ConfigSetupFrom(m, params, outs, j) ==
    IF j > Len(params) \/ m.raised THEN m
    ELSE ConfigSetupFrom(ConfigSetupKey(m, params[j][1], params[j][2], outs[j]), params, outs, j + 1)

Config_setup_ctrls(m, params, outs) == ConfigSetupFrom(m, params, outs, 1)

(************************* DesktopPortal ***********************************)
\* device.portal is portal_available()
Portal_ctrls(device) ==
    IF ~device.portal THEN << >>
    ELSE << [Ctrl("desktop_portal_cameractrlsd", "button", None, None, 0, 0,
                  << Menu(Str("disable"), Str("disable")), Menu(Str("enable"), Str("enable")) >>)
                EXCEPT !.unrestorable = TRUE] >>

\* one iteration of DesktopPortal.setup_ctrls; out.fail: RequestBackground
\* raises, which request_autostart turns into a warning
PortalSetupKey(m, k, v, out) ==
    LET i == find_by_text_id(m.reg.portal, k)
        j == find_by_text_id(m.reg.portal[i].menu, v)
        m1 == Logged(m, "RequestBackground", "portal", k, m.reg.portal[i].menu[j].value = Str("enable"))
    IN  IF i = 0 THEN m
        ELSE IF j = 0 THEN Warn(m, "DesktopPortal", k, "cant_find")
        ELSE IF out.fail THEN Warn(m1, "DesktopPortal", k, "request_failed")
        ELSE m1

RECURSIVE PortalSetupFrom(_, _, _, _)
PortalSetupFrom(m, params, outs, j) ==
    IF j > Len(params) \/ m.raised THEN m
    ELSE PortalSetupFrom(PortalSetupKey(m, params[j][1], params[j][2], outs[j]), params, outs, j + 1)

Portal_setup_ctrls(m, params, outs) == PortalSetupFrom(m, params, outs, 1)

(************************* CameraCtrls *************************************)
\* the backends in the order of CameraCtrls.ctrls
Backends == << "v4l", "fmt", "kiyo", "logitech", "dell", "anker", "systemd", "color", "config", "portal" >>

\* c.setup_ctrls(params, errs) for the backend named b
BackendSetup(b, m, params, outs) ==
    CASE b = "v4l" -> V4L2_setup_ctrls(m, params, outs)
      [] b = "fmt" -> Fmt_setup_ctrls(m, params, outs)
      [] b = "kiyo" -> Kiyo_setup_ctrls(m, params, outs)
      [] b = "logitech" -> Logitech_setup_ctrls(m, params, outs)
      [] b = "dell" -> Dell_setup_ctrls(m, params, outs)
      [] b = "anker" -> Anker_setup_ctrls(m, params, outs)
      [] b = "systemd" -> Systemd_setup_ctrls(m, params, outs)
      [] b = "color" -> Color_setup_ctrls(m, params, outs)
      [] b = "config" -> Config_setup_ctrls(m, params, outs)
      [] b = "portal" -> Portal_setup_ctrls(m, params, outs)

\* the loop over the backends; an uncaught exception of one ends it. The
\* backend runs in the frame of this invocation, whatever it nested.
RECURSIVE BackendsFrom(_, _, _, _, _)
BackendsFrom(m, params, outs, f, n) ==
    IF n > Len(Backends) \/ m.raised THEN m
    ELSE LET m1 == Logged([m EXCEPT !.frame = f], "setup_ctrls", Backends[n], "", params)
             m2 == BackendSetup(Backends[n], m1, params, outs)
         IN  BackendsFrom([m2 EXCEPT !.frame = f], params, outs, f, n + 1)

KeysOf(params) == {params[j][1] : j \in 1..Len(params)}
TextIds(ctrls) == {ctrls[i].text_id : i \in 1..Len(ctrls)}

\* set(params.keys()) - set([c.text_id for c in self.get_ctrls()])
unknown_ctrls(m, params) == KeysOf(params) \ TextIds(get_ctrls(m.reg))

\* CameraCtrls.setup_ctrls(params, errs); outs[j] is how the device and the
\* system answer the calls made for the j-th pair. The invocation gets the
\* next frame number and gives the frame back to its caller at the end.
CameraCtrls_setup_ctrls(m, params, outs) ==
    LET f == m.calls + 1
        m0 == Logged([m EXCEPT !.calls = f, !.frame = f], "enter", "", "", params)
        m1 == BackendsFrom(m0, params, outs, f, 1)
        m2 == IF m1.raised \/ unknown_ctrls(m1, params) = {} THEN m1
              ELSE [Logged(m1, "warning", "CameraCtrls", "", "unknown")
                      EXCEPT !.errs = Append(@, [src |-> "CameraCtrls", key |-> "", kind |-> "unknown",
                                                 keys |-> unknown_ctrls(m1, params), frame |-> f])]
        m3 == IF m2.raised THEN m2 ELSE Logged(m2, "exit", "", "", params)
    IN  [m3 EXCEPT !.frame = m.frame]

(***************************************************************************)
(* V4L2Listener.  A step of its loop yields the machine state and what     *)
(* the step did: cb, the text ids the change callback was called with, in  *)
(* order; err, the number of error callback calls; dq, the number of       *)
(* events dequeued; exits, whether the loop was left.                      *)
(***************************************************************************)
\* update_ctrl(ctrl, value, updates), ctrl the i-th format control (0: None)
update_ctrl(st, i, value) ==
    IF i # 0 /\ st.m.reg.fmt[i].value # value
    THEN [m |-> SetValue(st.m, "fmt", i, value), updates |-> Append(st.updates, i)]
    ELSE st

\* the controls handed to self.cb, by text id
RECURSIVE CallbacksFor(_, _)
CallbacksFor(ctrls, calls) ==
    IF calls = << >> THEN << >>
    ELSE << ctrls[Head(calls)].text_id >> \o CallbacksFor(ctrls, Tail(calls))

\* the callback calls made for the list updates: only the first is used
FirstUpdate(updates) == IF Len(updates) > 0 THEN << updates[1] >> ELSE << >>

\* query_fmt_changes(); gfmt and gparm tell whether VIDIOC_G_FMT and
\* VIDIOC_G_PARM fail in this cycle
query_fmt_changes(m, gfmt, gparm) ==
    LET st0 == [m |-> m, updates |-> << >>]
        st1 == IF gfmt THEN st0
               ELSE update_ctrl(update_ctrl(st0, find_by_text_id(m.reg.fmt, "pixelformat"),
                                            pxf2str(m.dev.fmt.pixelformat)),
                                find_by_text_id(m.reg.fmt, "resolution"), wh2str(m.dev.fmt))
        st2 == update_ctrl(st1, find_by_text_id(m.reg.fmt, "fps"), get_fps(m.dev.parm, gparm))
    IN  [m |-> st2.m, dq |-> 0, err |-> 0, exits |-> FALSE,
         cb |-> CallbacksFor(m.reg.fmt, FirstUpdate(st2.updates))]

\* the flag bit of an event's flags word
HasFlag(flags, bit) == (flags \div bit) % 2 = 1

\* the body of run() after poll() returned the readiness v for the handle;
\* event is the head of the kernel's queue, dqfail a failing VIDIOC_DQEVENT
run_ready(m, v, event, dqfail) ==
    LET i == find_by_v4l2_id(m.reg.v4l, event.id)
        m1 == [m EXCEPT !.reg.v4l[i].inactive = HasFlag(event.flags, V4L2_CTRL_FLAG_INACTIVE),
                        !.reg.v4l[i].readonly = HasFlag(event.flags, V4L2_CTRL_FLAG_READ_ONLY)]
        m2 == set_ctrl_int_value([m1 EXCEPT !.errs = << >>], i, event.value)
    IN  IF v \in {"POLLNVAL", "POLLERR"}
        THEN [m |-> m, dq |-> 0, err |-> 0, exits |-> TRUE, cb |-> << >>]
        ELSE IF dqfail
        THEN [m |-> m, dq |-> 0, err |-> 1, exits |-> TRUE, cb |-> << >>]
        ELSE IF Len(m2.errs) > 0
        THEN [m |-> m2, dq |-> 1, err |-> 1, exits |-> FALSE, cb |-> << >>]
        ELSE [m |-> m2, dq |-> 1, err |-> 0, exits |-> FALSE, cb |-> << m2.reg.v4l[i].text_id >>]

(***************************************************************************)
(* Devices.  A device profile gives what the sysfs descriptors and the     *)
(* environment of the process hold; a device state gives what the device   *)
(* answers.                                                                *)
(***************************************************************************)
NoUnits == [g \in Guids |-> 0]

Profile(usb_ids, units, probes, systemd, portal) ==
    [usb_ids |-> usb_ids, units |-> units, probes |-> probes,
     systemd |-> systemd, active |-> FALSE, portal |-> portal]

PlainDevice == Profile("0000:0000", NoUnits, {}, TRUE, FALSE)
KiyoDevice == Profile(KIYO_PRO_USB_ID, [NoUnits EXCEPT !["eu1"] = 4], {}, TRUE, FALSE)
DellDevice == Profile("413c:c015", [NoUnits EXCEPT !["eu1"] = 4], {}, TRUE, FALSE)
\* a Logitech camera whose descriptors hold the peripheral unit and the user
\* hw unit, and one with the BRIO unit
LogitechDevice ==
    Profile("046d:0000", [NoUnits EXCEPT !["logitech_peripheral"] = 3, !["logitech_user_hw"] = 5],
            {LOGITECH_PERIPHERAL_LED1_SEL, LOGITECH_PERIPHERAL_PANTILT_RESET_SEL}, TRUE, FALSE)
BrioDevice == Profile("046d:085e", [NoUnits EXCEPT !["logitech_brio"] = 6], {}, TRUE, FALSE)
AnkerDevice == Profile("291a:3367", [NoUnits EXCEPT !["ankerwork"] = 7], {}, TRUE, FALSE)
\* units of vendors whose allow-lists do not hold the device, inside a flatpak
\* without systemd
ForeignDevice ==
    Profile("1234:5678", [NoUnits EXCEPT !["eu1"] = 4, !["ankerwork"] = 7], {}, FALSE, TRUE)

Devices == {PlainDevice, KiyoDevice, DellDevice, LogitechDevice, BrioDevice, AnkerDevice, ForeignDevice}

\* the extension-unit registers (unit, selector) of a device and their
\* contents when the registry is built
XuRegisters(device) ==
    LET u == device.units
    IN  (IF u["eu1"] # 0 THEN {<< XuReg(u["eu1"], EU1_SET_ISP), <<"bytes", "POWER_ON">> >>} ELSE {})
        \cup (IF u["logitech_peripheral"] # 0
              THEN {<< XuReg(u["logitech_peripheral"], LOGITECH_PERIPHERAL_LED1_SEL), <<0, 1, 0, 5, 0>> >>}
              ELSE {})
        \cup (IF u["logitech_user_hw"] # 0
              THEN {<< XuReg(u["logitech_user_hw"], LOGITECH_HW_CONTROL_LED1_SEL), <<7, 0, 5>> >>}
              ELSE {})
        \cup (IF u["logitech_brio"] # 0
              THEN {<< XuReg(u["logitech_brio"], LOGITECH_BRIO_FOV_SEL), <<1>> >>}
              ELSE {})
        \cup (IF u["ankerwork"] # 0
              THEN {<< XuReg(u["ankerwork"], ANKERWORK_FOV_SELECTOR), ANKERWORK_FOV_65 >>,
                    << XuReg(u["ankerwork"], ANKERWORK_HOR_SELECTOR), <<0>> >>,
                    << XuReg(u["ankerwork"], ANKERWORK_FACE_EXPOSURE_COMP_SELECTOR), <<1, 35>> >>,
                    << XuReg(u["ankerwork"], ANKERWORK_HDR_SELECTOR), <<0>> >>,
                    << XuReg(u["ankerwork"], ANKERWORK_MIC_PICKUP_MODE_SELECTOR), <<ANKERWORK_MIC_PICKUP_90>> >>}
              ELSE {})

XuOf(device) ==
    [r \in {p[1] : p \in XuRegisters(device)} |-> (CHOOSE p \in XuRegisters(device) : p[1] = r)[2]]

\* the device state: control values per id, the format, the stream
\* parameters, the extension-unit registers
DevState(vals, fmt, parm, xu) == [v4l |-> vals, fmt |-> fmt, parm |-> parm, xu |-> xu]

V4L2Vals(sat, awb, plf) ==
    [id \in V4L2Ids |->
        IF id = V4L2_CID_SATURATION THEN sat
        ELSE IF id = V4L2_CID_AUTO_WHITE_BALANCE THEN awb
        ELSE IF id = V4L2_CID_POWER_LINE_FREQUENCY THEN plf
        ELSE 0]

NoFlags == [id \in V4L2Ids |-> 0]

DevFmt(i, j) == [pixelformat |-> DevFormats[i], width |-> DevSizes[j].width, height |-> DevSizes[j].height]

\* the preset file: absent, without the preset, or holding a preset saved
\* when the camera had another control
NoFile == [file |-> FALSE, has |-> FALSE, preset |-> << >>]
OtherPresets == [file |-> TRUE, has |-> FALSE, preset |-> << >>]
OldPreset == [file |-> TRUE, has |-> TRUE,
              preset |-> << <<"saturation", Num(2)>>, <<"sharpness", Num(3)>> >>]

\* CameraCtrls.__init__: every backend builds its controls from the device
CameraCtrls_init(device, dev, flags, cfg) ==
    [reg |-> [v4l |-> V4L2_get_device_controls(dev.v4l, flags),
              fmt |-> get_format_ctrls(dev),
              kiyo |-> Kiyo_get_device_controls(device),
              logitech |-> Logitech_get_device_controls(device, dev.xu),
              dell |-> Dell_get_device_controls(device),
              anker |-> Anker_get_device_controls(device, dev.xu),
              systemd |-> Systemd_ctrls(device),
              color |-> Color_ctrls(V4L2_get_device_controls(dev.v4l, flags)),
              config |-> Config_ctrls,
              portal |-> Portal_ctrls(device)],
     dev |-> dev, cfg |-> cfg, device |-> device,
     errs |-> << >>, log |-> << >>, raised |-> FALSE, frame |-> 0, calls |-> 0]

(***************************************************************************)
(* Inputs.  A batch is a dict: a sequence of (key, value) pairs with       *)
(* distinct keys.  The values tried per key are the literals a command     *)
(* line gives.                                                             *)
(***************************************************************************)
MaxBatch == 2
MaxApplies == 2

Literals(k) ==
    CASE k = "saturation" -> {Num(2), Num(3), Pct(0), Str("default"), Str("high")}
      [] k = "white_balance_automatic" -> {Str("off"), Str("default")}
      [] k = "power_line_frequency" -> {Str("disabled"), Str("60_hz")}
      [] k = "pan_reset" -> {Num(1)}
      [] k = "pixelformat" -> {CC_YUYV, CC_MJPG}
      [] k = "resolution" -> {wh2str(DevSizes[1]), wh2str(DevSizes[2])}
      [] k = "fps" -> {Num(30), Num(15)}
      [] k = "card" -> {Str("webcam")}
      [] k = "kiyo_pro_hdr" -> {Str("on"), Str("auto")}
      [] k = "kiyo_pro_fov" -> {Str("narrow"), Str("wide")}
      [] k = "kiyo_pro_save" -> {Str("save")}
      [] k = "dell_ultrasharp_fov" -> {Num(78), Num(100)}
      [] k = "dell_ultrasharp_hdr" -> {Str("on")}
      [] k = "logitech_led1_mode" -> {Str("off"), Str("blink")}
      [] k = "logitech_led1_frequency" -> {Num(9), Num(300)}
      [] k = "logitech_pantilt_reset" -> {Str("both")}
      [] k = "logitech_brio_fov" -> {Num(65), Num(90)}
      [] k = "ankerwork_fov" -> {Num(78), Str("auto")}
      [] k = "ankerwork_hdr" -> {Str("on"), Str("off")}
      [] k = "ankerwork_mic_pickup" -> {Num(360)}
      [] k = "ankerwork_face_compensation_enable" -> {Str("off")}
      [] k = "ankerwork_face_compensation" -> {Num(0), Num(35)}
      [] k = "ankerwork_hor_flip" -> {Str("on")}
      [] k = "systemd_cameractrlsd" -> {Str("on"), Str("off")}
      [] k = "color_preset" -> {Str("gray"), Str("default"), Str("bright")}
      [] k = "preset" -> {Str("load_1"), Str("save_1")}
      [] k = "desktop_portal_cameractrlsd" -> {Str("enable"), Str("disable")}
      [] OTHER -> {Num(1)}

\* a key no backend owns
UnknownKey == "sharpness"

Pairs(keyset) == UNION {{<<k, v>> : v \in Literals(k)} : k \in keyset}

DistinctKeys(params) == \A i, j \in 1..Len(params) : i # j => params[i][1] # params[j][1]

Batches(keyset) ==
    {params \in UNION {[1..len -> Pairs(keyset)] : len \in 1..MaxBatch} : DistinctKeys(params)}

\* keys of vendor controls, given to a camera that has none of them
AbsentKeys == {"kiyo_pro_hdr", "dell_ultrasharp_hdr", "logitech_led1_mode", "ankerwork_hdr"}

\* the key sets a session draws its batches from: the keys of one backend,
\* the keys of the preset and service backends, or one key of each kind,
\* always with the unknown key
KeyGroups(reg) ==
    LET vendor == TextIds(reg.kiyo) \cup TextIds(reg.logitech) \cup TextIds(reg.dell) \cup TextIds(reg.anker)
        service == TextIds(reg.systemd) \cup TextIds(reg.color) \cup TextIds(reg.config) \cup TextIds(reg.portal)
    IN  {g \cup {UnknownKey} :
            g \in IF vendor = {}
                  THEN {TextIds(reg.v4l), {"pixelformat", "resolution", "fps", "card"}, service,
                        {"saturation", "fps", "preset"}, AbsentKeys}
                  ELSE {vendor, {"saturation"} \cup service}}

\* how the device and the system may answer the calls made for a key
Out(fail, val, gfail, pad) == [fail |-> fail, val |-> val, gfail |-> gfail, pad |-> pad, tie |-> FALSE]
OutOk == Out(FALSE, 0, FALSE, 0)
OutFail == Out(TRUE, 0, FALSE, 0)
OutKeep == Out(FALSE, 1, FALSE, 0)
OutGFail == Out(FALSE, 0, TRUE, 0)
OutPad == Out(FALSE, 0, FALSE, 1)

OutsFor(k) ==
    CASE k \in {"saturation", "white_balance_automatic", "power_line_frequency", "pan_reset",
                "color_preset", "preset"} -> {OutOk, OutFail, OutKeep}
      [] k \in {"pixelformat", "resolution", "fps", "logitech_led1_mode", "logitech_led1_frequency",
                "logitech_brio_fov"} -> {OutOk, OutFail, OutKeep, OutGFail}
      [] k \in {"ankerwork_fov", "ankerwork_hdr", "ankerwork_mic_pickup", "ankerwork_face_compensation_enable",
                "ankerwork_face_compensation", "ankerwork_hor_flip"} -> {OutOk, OutPad, OutGFail}
      [] k = UnknownKey -> {OutOk}
      [] OTHER -> {OutOk, OutFail}

OutsOf(params) == {outs \in [1..Len(params) -> UNION {OutsFor(params[j][1]) : j \in 1..Len(params)}] :
                      \A j \in 1..Len(params) : outs[j] \in OutsFor(params[j][1])}

(***************************************************************************)
(* The state: the machine m; the machine pre as it was when the last       *)
(* operation began; the last operation, its inputs and what it did; the    *)
(* number n of operations so far; the keys the session's batches are drawn *)
(* from; the listener's thread lis; the percentage computation pct; call,  *)
(* the caller's position in an apply that runs beside the thread; and fn,  *)
(* a helper function called on its own, its arguments and its result.      *)
(***************************************************************************)
VARIABLES m, pre, last, n, keys, lis, pct, call, fn

vars == <<m, pre, last, n, keys, lis, pct, call, fn>>

NoEvent == [id |-> 0, value |-> 0, flags |-> 0]

Op(op, params, outs) ==
    [op |-> op, params |-> params, outs |-> outs, v |-> "", event |-> NoEvent,
     gfmt |-> FALSE, gparm |-> FALSE, dqfail |-> FALSE, cb |-> << >>, err |-> 0, dq |-> 0]

Idle == Op("idle", << >>, << >>)

NoListener == [closed |-> TRUE, exited |-> TRUE, evq |-> << >>]
NoPct == [min |-> 0, default |-> 0, max |-> 0, nn |-> 0, intvalue |-> 0]
\* the caller is in no apply
NoCall == [pc |-> "idle", i |-> 0, value |-> None, warned |-> FALSE]
\* no helper function is being called
NoFn == [f |-> "none", arg |-> << >>, res |-> << >>, done |-> FALSE]

\* the caller's fresh warnings list, and a fresh log
Fresh(s) == [s EXCEPT !.errs = << >>, !.log = << >>, !.raised = FALSE, !.frame = 0, !.calls = 0]

Init ==
    /\ \E device \in Devices, cfg \in {NoFile, OtherPresets, OldPreset}, plf \in {1, 2} :
          /\ device # PlainDevice => cfg = NoFile /\ plf = 1
          /\ m = CameraCtrls_init(device,
                                  DevState(V4L2Vals(1, 1, plf), DevFmt(1, 1), DevIntervals[1], XuOf(device)),
                                  NoFlags, cfg)
    /\ keys \in KeyGroups(m.reg)
    /\ "preset" \notin keys => m.cfg = NoFile
    /\ "power_line_frequency" \notin keys => m.dev.v4l[V4L2_CID_POWER_LINE_FREQUENCY] = 1
    /\ pre = m
    /\ last = Idle
    /\ n = 0
    /\ lis = NoListener
    /\ pct = NoPct
    /\ call = NoCall
    /\ fn = NoFn

\* the caller applies a batch through the aggregator, with a new warnings list
Apply ==
    /\ last.op = "idle"
    /\ n < MaxApplies
    /\ \E params \in Batches(keys) : \E outs \in OutsOf(params) :
          /\ m' = CameraCtrls_setup_ctrls(Fresh(m), params, outs)
          /\ last' = Op("apply", params, outs)
    /\ pre' = Fresh(m)
    /\ n' = n + 1
    /\ UNCHANGED <<keys, lis, pct, call, fn>>

\* the caller has reported the warnings and drops the list
Return ==
    /\ last.op # "idle"
    /\ m' = Fresh(m)
    /\ pre' = Fresh(m)
    /\ last' = Idle
    /\ UNCHANGED <<n, keys, lis, pct, call, fn>>

Next == Apply \/ Return

Spec == Init /\ [][Next]_vars

(***************************************************************************)
(* The generic backend on its own: the caller applies batches of generic   *)
(* keys with V4L2Ctrls.setup_ctrls.                                        *)
(***************************************************************************)
MaxV4L2Batch == 2

\* the literals of the forms the write path takes for the control k
V4L2Literals(k) ==
    IF find_by_text_id(m.reg.v4l, k) # 0 /\ m.reg.v4l[find_by_text_id(m.reg.v4l, k)].type = "integer"
    THEN {v \in Literals(k) : CanInt(v) \/ v[1] = "pct" \/ v = Str("default")}
    ELSE Literals(k)

V4L2Batches ==
    {params \in UNION {[1..len -> UNION {{<<k, v>> : v \in V4L2Literals(k)} :
                                            k \in TextIds(m.reg.v4l) \cup {UnknownKey}}] :
                          len \in 1..MaxV4L2Batch} :
        DistinctKeys(params)}

V4L2OutsOf(params) ==
    {outs \in [1..Len(params) -> {OutOk, OutFail, OutKeep}] :
        \A j \in 1..Len(params) : outs[j] \in OutsFor(params[j][1])}

\* saturation may be inactive or read only when the registry is built
InitV4L2 ==
    /\ \E sat \in {2}, flags \in {0, V4L2_CTRL_FLAG_INACTIVE, V4L2_CTRL_FLAG_READ_ONLY} :
          m = CameraCtrls_init(PlainDevice,
                               DevState(V4L2Vals(sat, 0, 1), DevFmt(1, 1), DevIntervals[1], XuOf(PlainDevice)),
                               [NoFlags EXCEPT ![V4L2_CID_SATURATION] = flags], NoFile)
    /\ keys = TextIds(m.reg.v4l) \cup {UnknownKey}
    /\ pre = m
    /\ last = Idle
    /\ n = 0
    /\ lis = NoListener
    /\ pct = NoPct
    /\ call = NoCall
    /\ fn = NoFn

V4L2Apply ==
    /\ last.op = "idle"
    /\ n < MaxApplies
    /\ \E params \in V4L2Batches : \E outs \in V4L2OutsOf(params) :
          /\ m' = V4L2_setup_ctrls(Fresh(m), params, outs)
          /\ last' = Op("v4l_apply", params, outs)
    /\ pre' = Fresh(m)
    /\ n' = n + 1
    /\ UNCHANGED <<keys, lis, pct, call, fn>>

NextV4L2 == V4L2Apply \/ Return

SpecV4L2 == InitV4L2 /\ [][NextV4L2]_vars

(***************************************************************************)
(* The percentage literal on its own: an integer control with the range    *)
(* and default pct.min <= pct.default <= pct.max, and the literal pct.nn%. *)
(***************************************************************************)
MaxPct == 210
MaxSpan == 3

PctRanges ==
    {[min |-> lo, default |-> lo + a, max |-> lo + a + b] :
        lo \in (0 - MaxSpan)..MaxSpan, a \in 0..MaxSpan, b \in 0..MaxSpan}
    \cup {[min |-> 0, default |-> 50, max |-> 255]}

InitPct ==
    /\ m = CameraCtrls_init(PlainDevice,
                            DevState(V4L2Vals(1, 1, 1), DevFmt(1, 1), DevIntervals[1], XuOf(PlainDevice)),
                            NoFlags, NoFile)
    /\ keys = {}
    /\ pre = m
    /\ last = Idle
    /\ n = 0
    /\ lis = NoListener
    /\ \E r \in PctRanges, nn \in 0..MaxPct :
          pct = [min |-> r.min, default |-> r.default, max |-> r.max, nn |-> nn, intvalue |-> r.min]
    /\ call = NoCall
    /\ fn = NoFn

\* the percentage branch of V4L2Ctrls.setup_ctrls computes the value to request
Percent ==
    /\ last.op = "idle"
    /\ \E up \in BOOLEAN :
          pct' = [pct EXCEPT !.intvalue =
                    PercentValue([min |-> pct.min, max |-> pct.max, default |-> PyInt(pct.default)], pct.nn, up)]
    /\ last' = Op("percent", << >>, << >>)
    /\ UNCHANGED <<m, pre, n, keys, lis, call, fn>>

NextPct == Percent

SpecPct == InitPct /\ [][NextPct]_vars

(***************************************************************************)
(* The listener thread on a plain camera.  lis.evq is the kernel's queue   *)
(* of control events for the handle; other processes change controls and   *)
(* the format while the thread runs.                                       *)
(***************************************************************************)
MaxChanges == 2

Events ==
    {[id |-> id, value |-> value, flags |-> flags] :
        id \in {V4L2_CID_SATURATION, V4L2_CID_POWER_LINE_FREQUENCY},
        value \in {0, 2},
        flags \in {0, V4L2_CTRL_FLAG_INACTIVE, V4L2_CTRL_FLAG_READ_ONLY}}

InitListener ==
    /\ m = CameraCtrls_init(PlainDevice,
                            DevState(V4L2Vals(1, 1, 1), DevFmt(1, 1), DevIntervals[1], XuOf(PlainDevice)),
                            NoFlags, NoFile)
    /\ keys = {}
    /\ pre = m
    /\ last = Idle
    /\ n = 0
    /\ lis = [closed |-> FALSE, exited |-> FALSE, evq |-> << >>]
    /\ pct = NoPct
    /\ call = NoCall
    /\ fn = NoFn

\* another process sets a control: the device changes and the kernel queues
\* an event for the handle
DeviceChange ==
    /\ n < MaxChanges
    /\ \E e \in Events :
          /\ m' = [m EXCEPT !.dev.v4l[e.id] = e.value]
          /\ lis' = [lis EXCEPT !.evq = Append(@, e)]
    /\ pre' = m'
    /\ last' = Idle
    /\ n' = n + 1
    /\ UNCHANGED <<keys, pct, call, fn>>

\* another process sets the format or the frame interval
FormatChange ==
    /\ n < MaxChanges
    /\ \E i \in 1..Len(DevFormats), j \in 1..Len(DevSizes), t \in 1..Len(DevIntervals) :
          /\ DevState(m.dev.v4l, DevFmt(i, j), DevIntervals[t], m.dev.xu) # m.dev
          /\ m' = [m EXCEPT !.dev = DevState(m.dev.v4l, DevFmt(i, j), DevIntervals[t], m.dev.xu)]
    /\ pre' = m'
    /\ last' = Idle
    /\ n' = n + 1
    /\ UNCHANGED <<keys, lis, pct, call, fn>>

Running == ~lis.closed /\ ~lis.exited

\* poll(1) returns nothing: one timeout cycle of run()
Timeout ==
    /\ Running
    /\ lis.evq = << >>
    /\ \E gfmt \in BOOLEAN, gparm \in BOOLEAN :
          LET r == query_fmt_changes(m, gfmt, gparm)
          IN  /\ m' = r.m
              /\ last' = [Op("timeout", << >>, << >>) EXCEPT !.gfmt = gfmt, !.gparm = gparm, !.cb = r.cb]
    /\ pre' = m
    /\ UNCHANGED <<n, keys, lis, pct, call, fn>>

\* poll(1) returns the readiness v: one wake-up of run().  An empty queue
\* makes VIDIOC_DQEVENT fail; it can fail on a device error too
Wake ==
    /\ Running
    /\ \E v \in {"POLLPRI", "POLLPRI|POLLERR", "POLLERR", "POLLNVAL"}, dqfail \in BOOLEAN :
          /\ v = "POLLPRI" => lis.evq # << >>
          /\ lis.evq = << >> => dqfail
          /\ LET event == IF lis.evq = << >> THEN NoEvent ELSE Head(lis.evq)
                 r == run_ready(m, v, event, dqfail)
             IN  /\ m' = r.m
                 /\ lis' = [lis EXCEPT !.exited = r.exits,
                                       !.evq = IF r.dq = 1 THEN Tail(@) ELSE @]
                 /\ last' = [Op("wake", << >>, << >>) EXCEPT !.v = v, !.event = event, !.dqfail = dqfail,
                                                             !.cb = r.cb, !.err = r.err, !.dq = r.dq]
    /\ pre' = m
    /\ UNCHANGED <<n, keys, pct, call, fn>>

\* V4L2Listener.stop
Stop ==
    /\ ~lis.closed
    /\ lis' = [lis EXCEPT !.closed = TRUE]
    /\ UNCHANGED <<m, pre, last, n, keys, pct, call, fn>>

NextListener == DeviceChange \/ FormatChange \/ Timeout \/ Wake \/ Stop

SpecListener == InitListener /\ [][NextListener]_vars

(***************************************************************************)
(* Properties of the generic backend's apply, on the last pass             *)
(* V4L2Ctrls.setup_ctrls(last.params) made from the state pre.             *)
(***************************************************************************)
V4L2Pass == last.op = "v4l_apply"

\* the control of the j-th key in the generic backend's list, 0 for none
V4L2At(j) == find_by_text_id(pre.reg.v4l, last.params[j][1])

LogAt(ops, key) == {x \in 1..Len(m.log) : m.log[x].op \in ops /\ m.log[x].key = key}

WarningsFor(key) == {x \in 1..Len(m.errs) : m.errs[x].key = key}

\* what the device reported back for the j-th key's request intvalue
ReportedBack(j, intvalue) ==
    IF last.outs[j].val = 0 THEN DriverValue(pre.reg.v4l[V4L2At(j)], intvalue)
    ELSE pre.dev.v4l[pre.reg.v4l[V4L2At(j)].v4l2_id]

\* the set-control call for the j-th key failed, or reported another value
SetRejected(j) ==
    /\ V4L2At(j) # 0
    /\ \E x \in LogAt({"S_CTRL"}, last.params[j][1]) :
          last.outs[j].fail \/ ReportedBack(j, m.log[x].val) # m.log[x].val

\* the pass reached the j-th key: it issued the call or recorded a warning
Processed(j) == LogAt({"S_CTRL", "warning", "raise"}, last.params[j][1]) # {}

DefaultPass(i) ==
    /\ V4L2Pass
    /\ last.params = << <<pre.reg.v4l[i].text_id, Str("default")>> >>
    /\ pre.reg.v4l[i].type \in {"integer", "boolean"}
    /\ ~pre.reg.v4l[i].inactive
    /\ ~pre.reg.v4l[i].readonly

C5_Claimed ==
    \A i \in 1..Len(pre.reg.v4l) : DefaultPass(i) => m.reg.v4l[i].value = m.reg.v4l[i].default

\* C5 amended: after apply({id: 'default'}) on such a control the value is
\* the default when no warning was recorded for the control, and the value
\* it had before when one was.
C5_DefaultUnlessWarned ==
    \A i \in 1..Len(pre.reg.v4l) :
        DefaultPass(i) =>
            IF WarningsFor(pre.reg.v4l[i].text_id) = {}
            THEN m.reg.v4l[i].value = m.reg.v4l[i].default
            ELSE m.reg.v4l[i].value = pre.reg.v4l[i].value

\* C5 witness: 'default' moved an Integer control from another value to its
\* default without a warning
C5_Witness ==
    \E i \in 1..Len(pre.reg.v4l) :
        /\ DefaultPass(i)
        /\ pre.reg.v4l[i].type = "integer"
        /\ pre.reg.v4l[i].value # pre.reg.v4l[i].default
        /\ m.reg.v4l[i].value = m.reg.v4l[i].default
        /\ m.errs = << >>

(***************************************************************************)
(* Properties of the percentage literal.                                   *)
(***************************************************************************)
\* 100 times min + 2*(default-min)*NN/100, an integer
PctHundredths == 100 * pct.min + 2 * (pct.default - pct.min) * pct.nn

\* r is an integer nearest to PctHundredths / 100
NearestTo(r) == 100 * r - PctHundredths \in (0 - 50)..50

\* C6: the integer requested for 'NN%' is min + 2*(default-min)*NN/100
\* rounded to a nearest integer and brought into [min, max]; 0% requests
\* min, 50% requests default, and with min=0, default=50, max=255 100%
\* requests 100 and 200% requests 200.
C6_PercentRequest ==
    last.op = "percent" =>
        /\ pct.intvalue \in pct.min..pct.max
        /\ \E r \in (pct.min - 1)..(PctHundredths \div 100 + 1) :
              /\ NearestTo(r)
              /\ pct.intvalue = Max2(pct.min, Min2(pct.max, r))
        /\ pct.nn = 0 => pct.intvalue = pct.min
        /\ pct.nn = 50 => pct.intvalue = pct.default
        /\ (pct.min = 0 /\ pct.default = 50 /\ pct.max = 255 /\ pct.nn \in {100, 200})
              => pct.intvalue = pct.nn

\* C6 witness: with min=0, default=50, max=255, 200% requested 200
C6_Witness ==
    /\ last.op = "percent"
    /\ pct.min = 0 /\ pct.default = 50 /\ pct.max = 255
    /\ pct.nn = 200
    /\ pct.intvalue = 200

(***************************************************************************)
(* Properties of the listener, on its last step from the state pre.        *)
(***************************************************************************)
\* the format controls a timeout cycle compares, in its order
Reopeners == << "pixelformat", "resolution", "fps" >>

\* what the device holds for the format control text_id
LiveValue(text_id) ==
    IF text_id = "pixelformat" THEN pxf2str(pre.dev.fmt.pixelformat)
    ELSE IF text_id = "resolution" THEN wh2str(pre.dev.fmt)
    ELSE dn2str(pre.dev.parm)

CachedValue(text_id) == pre.reg.fmt[find_by_text_id(pre.reg.fmt, text_id)].value

Differing == {x \in 1..Len(Reopeners) : LiveValue(Reopeners[x]) # CachedValue(Reopeners[x])}

FirstDiffering == CHOOSE x \in Differing : \A y \in Differing : x <= y

\* C9 as claimed: in a timeout cycle the change callback is called exactly
\* once, for the first of pixel format, resolution and frame rate that
\* differs from its cached value, and not at all when none differs.
C9_Claimed ==
    last.op = "timeout" =>
        IF Differing = {} THEN last.cb = << >>
        ELSE last.cb = << Reopeners[FirstDiffering] >>

\* the generic control the dequeued event is for
EventCtrl == find_by_v4l2_id(pre.reg.v4l, last.event.id)

EventEntry == find_by_value(pre.reg.v4l[EventCtrl].menu, PyInt(last.event.value))

Unresolvable == pre.reg.v4l[EventCtrl].type = "menu" /\ EventEntry = 0

FlagsFromEvent ==
    /\ m.reg.v4l[EventCtrl].inactive = HasFlag(last.event.flags, V4L2_CTRL_FLAG_INACTIVE)
    /\ m.reg.v4l[EventCtrl].readonly = HasFlag(last.event.flags, V4L2_CTRL_FLAG_READ_ONLY)

ValueFromEvent ==
    m.reg.v4l[EventCtrl].value =
        IF pre.reg.v4l[EventCtrl].type = "menu" THEN pre.reg.v4l[EventCtrl].menu[EventEntry].text_id
        ELSE PyInt(last.event.value)

AppliedBatch == last.op = "apply"

\* the literal v is of a form the write path of the control takes
Supported(ctrl, v) ==
    /\ ctrl.type = "integer" =>
          v = Str("default") \/ v[1] = "pct" \/ (CanInt(v) /\ IntOf(v) \in ctrl.min..ctrl.max)
    /\ ctrl.type \in {"menu", "button"} =>
          v = Str("default") \/ v \in {ctrl.menu[j].text_id : j \in 1..Len(ctrl.menu)}

\* every value of the batch is a supported literal of its key's controls
SupportedBatch ==
    \A j \in 1..Len(last.params) : \A i \in 1..Len(get_ctrls(pre.reg)) :
        get_ctrls(pre.reg)[i].text_id = last.params[j][1] => Supported(get_ctrls(pre.reg)[i], last.params[j][2])

\* the keys of the batch that match no control of the merged registry
UnknownKeys == KeysOf(last.params) \ TextIds(get_ctrls(pre.reg))

\* the unknown-controls warnings the invocation recorded, in errs and in log
UnknownWarnings == {x \in 1..Len(m.errs) : m.errs[x].kind = "unknown" /\ m.errs[x].frame = 1}

UnknownLogged ==
    {y \in 1..Len(m.log) : m.log[y].op = "warning" /\ m.log[y].b = "CameraCtrls" /\ m.log[y].frame = 1}

\* the log positions at which the invocation handed the batch to a backend
HandOvers == {y \in 1..Len(m.log) : m.log[y].op = "setup_ctrls" /\ m.log[y].frame = 1}

\* C2 as claimed, on batches of supported literals: the invocation records
\* exactly one unknown-controls warning if and only if a key of the batch
\* matches no control of the merged registry, the warning names exactly
\* those keys, it is recorded after every backend has processed the batch,
\* and none is recorded when every key is owned.
C2_Claimed ==
    AppliedBatch /\ SupportedBatch =>
        /\ UnknownKeys # {} <=> Cardinality(UnknownWarnings) = 1
        /\ UnknownKeys = {} => UnknownWarnings = {}
        /\ \A x \in UnknownWarnings : m.errs[x].keys = UnknownKeys
        /\ \A y \in UnknownLogged :
              /\ \A n1 \in 1..Len(Backends) : \E z \in HandOvers : z < y /\ m.log[z].b = Backends[n1]
              /\ \A z \in (y + 1)..Len(m.log) : m.log[z].op = "exit"

\* the j-th hand-over of the invocation, by log position
RECURSIVE NthHandOver(_, _)
NthHandOver(j, from) ==
    IF from \in HandOvers THEN (IF j = 1 THEN from ELSE NthHandOver(j - 1, from + 1))
    ELSE NthHandOver(j, from + 1)

\* the log entries of the invocation itself while backend number n1 ran
Segment(n1) ==
    {y \in 1..Len(m.log) :
        /\ m.log[y].frame = 1
        /\ y > NthHandOver(n1, 1)
        /\ n1 < Len(Backends) => y < NthHandOver(n1 + 1, 1)
        /\ m.log[y].op \notin {"exit", "setup_ctrls"}
        /\ ~(m.log[y].op = "warning" /\ m.log[y].b = "CameraCtrls")}

\* C3 as claimed, on batches of supported literals: the invocation hands
\* the batch, unmodified, to every backend exactly once in the registry
\* order; a backend that owns none of the keys issues no device write and
\* records no warning, and, when no apply was nested, its controls are what
\* they were.
C3_Claimed ==
    AppliedBatch /\ SupportedBatch =>
        /\ Cardinality(HandOvers) = Len(Backends)
        /\ \A n1 \in 1..Len(Backends) :
              /\ m.log[NthHandOver(n1, 1)].b = Backends[n1]
              /\ m.log[NthHandOver(n1, 1)].val = last.params
              /\ KeysOf(last.params) \cap TextIds(pre.reg[Backends[n1]]) = {} =>
                    /\ Segment(n1) = {}
                    /\ m.calls = 1 => m.reg[Backends[n1]] = pre.reg[Backends[n1]]

(***************************************************************************)
(* Properties of the merged registry.                                      *)
(***************************************************************************)
DeviceBackends == {"v4l", "fmt", "kiyo", "logitech", "dell", "anker"}

MenuIds(ctrl) == {ctrl.menu[j].text_id : j \in 1..Len(ctrl.menu)}

\* the value list() shows after writing the literal v to the control
Written(ctrl, v) ==
    /\ ctrl.type = "menu" => ctrl.value = v
    /\ ctrl.type = "integer" => CanInt(ctrl.value) /\ IntOf(ctrl.value) = IntOf(v)
    /\ ctrl.type = "boolean" => CanInt(ctrl.value) /\ IntOf(ctrl.value) = BoolInt(to_bool(v))

\* the literal v names a value of the control: a menu entry's id, an integer
\* of the range, a boolean spelling
Requests(ctrl, v) ==
    /\ ctrl.type \in {"menu", "integer", "boolean"}
    /\ ctrl.type = "menu" => v \in MenuIds(ctrl)
    /\ ctrl.type = "integer" => CanInt(v)
    /\ ctrl.type = "boolean" => v # Str("default")

\* C4 as claimed: when apply({id: v}) completes without a warning for the
\* control, the list shows the control with the written value.
C4_Claimed ==
    AppliedBatch /\ Len(last.params) = 1 /\ ~m.raised =>
        \A b \in DeviceBackends : \A i \in 1..Len(pre.reg[b]) :
            /\ pre.reg[b][i].text_id = last.params[1][1]
            /\ Requests(pre.reg[b][i], last.params[1][2])
            /\ WarningsFor(last.params[1][1]) = {}
            => Written(m.reg[b][i], last.params[1][2])

\* C7 as claimed: every Menu control's value is None or the id of one of
\* its own menu entries.
C7_Claimed ==
    \A i \in 1..Len(get_ctrls(m.reg)) :
        get_ctrls(m.reg)[i].type = "menu" =>
            \/ get_ctrls(m.reg)[i].value = None
            \/ get_ctrls(m.reg)[i].value \in MenuIds(get_ctrls(m.reg)[i])

\* C8 as claimed: no two controls of the list have the same text id.
C8_Claimed ==
    \A i, j \in 1..Len(get_ctrls(m.reg)) :
        i # j => get_ctrls(m.reg)[i].text_id # get_ctrls(m.reg)[j].text_id

(***************************************************************************)
(* The listener's thread step by step: CameraCtrls.subscribe_events builds *)
(* the V4L2Listener and starts it; run() tests the loop condition, polls,  *)
(* and handles what poll returned, while the caller may call stop() and    *)
(* other processes change controls between any two of these steps.         *)
(* lis.pc is the thread's position: "none" (not built), "while" (at the    *)
(* loop test), "poll" (about to call poll), "timeout" and "ready" (poll    *)
(* returned), "event" (an event was dequeued) and "done" (run returned).   *)
(***************************************************************************)
NoThread ==
    [closed |-> FALSE, exited |-> FALSE, evq |-> << >>, pc |-> "none", v |-> "", event |-> NoEvent,
     subs |-> 0, subfail |-> 0, nerr |-> 0, polled |-> FALSE, dqfailed |-> FALSE,
     stopreq |-> FALSE, raised |-> FALSE]

\* V4L2Listener.__init__ over nctrls generic controls, the subfail-th
\* VIDIOC_SUBSCRIBE_EVENT failing (0: none fails), with the epoll left open
\* after the failure
V4L2Listener_init_KeepsOpen(l, nctrls, subfail) ==
    [l EXCEPT !.subs = IF subfail = 0 THEN nctrls ELSE subfail,
              !.subfail = subfail,
              !.nerr = IF subfail = 0 THEN 0 ELSE 1]

\* V4L2Listener.__init__ over nctrls generic controls, the subfail-th
\* VIDIOC_SUBSCRIBE_EVENT failing (0: none fails): subs counts the calls
\* issued and nerr the calls of err_cb
V4L2Listener_init(l, nctrls, subfail) ==
    [l EXCEPT !.subs = IF subfail = 0 THEN nctrls ELSE subfail,
              !.subfail = subfail,
              !.nerr = IF subfail = 0 THEN 0 ELSE 1,
              !.closed = subfail # 0]

\* the kernel queues events of the i-th generic control for the handle
Subscribed(l, i) == l.subs > 0 /\ i # 0 /\ (l.subfail = 0 \/ i < l.subfail)

\* stop() leaving the epoll object open
stop_KeepsOpen(l) == [l EXCEPT !.stopreq = TRUE]

\* V4L2Listener.stop()
stop(l) == [l EXCEPT !.stopreq = TRUE, !.closed = TRUE]

InitThread ==
    /\ m = CameraCtrls_init(PlainDevice,
                            DevState(V4L2Vals(1, 1, 1), DevFmt(1, 1), DevIntervals[1], XuOf(PlainDevice)),
                            NoFlags, NoFile)
    /\ keys = {}
    /\ pre = m
    /\ last = Idle
    /\ n = 0
    /\ lis = NoThread
    /\ pct = NoPct
    /\ call = NoCall
    /\ fn = NoFn

\* CameraCtrls.subscribe_events(cb, err_cb): the constructor, then start()
subscribe_events ==
    /\ lis.pc = "none"
    /\ \E subfail \in 0..Len(m.reg.v4l) :
          lis' = [V4L2Listener_init(lis, Len(m.reg.v4l), subfail) EXCEPT !.pc = "while"]
    /\ last' = Op("subscribe", << >>, << >>)
    /\ UNCHANGED <<m, pre, n, keys, pct, call, fn>>

\* the changes other processes make beside the thread: values only
ThreadEvents == {e \in Events : e.flags = 0}

\* another process sets a control; the kernel queues an event for the handle
\* when the control is subscribed
ControlChange ==
    /\ n < MaxChanges
    /\ \E e \in ThreadEvents :
          /\ m.dev.v4l[e.id] # e.value
          /\ m' = [m EXCEPT !.dev.v4l[e.id] = e.value]
          /\ lis' = IF Subscribed(lis, find_by_v4l2_id(m.reg.v4l, e.id))
                    THEN [lis EXCEPT !.evq = Append(@, e)] ELSE lis
    /\ n' = n + 1
    /\ UNCHANGED <<pre, last, keys, pct, call, fn>>

\* while not self.epoll.closed
LoopTest ==
    /\ lis.pc = "while"
    /\ lis' = IF lis.closed THEN [lis EXCEPT !.pc = "done", !.exited = TRUE]
              ELSE [lis EXCEPT !.pc = "poll"]
    /\ last' = Op("while", << >>, << >>)
    /\ UNCHANGED <<m, pre, n, keys, pct, call, fn>>

\* self.epoll.poll(1): on a closed epoll object it raises ValueError, which
\* nothing in run() catches; otherwise it returns within the second, empty
\* when no event is queued, or the readiness v of the handle
Poll ==
    /\ lis.pc = "poll"
    /\ \/ /\ lis.closed
          /\ lis' = [lis EXCEPT !.pc = "done", !.exited = TRUE, !.raised = TRUE]
       \/ /\ ~lis.closed
          /\ lis.evq = << >>
          /\ lis' = [lis EXCEPT !.pc = "timeout", !.polled = TRUE]
       \/ /\ ~lis.closed
          /\ \E v \in {"POLLPRI", "POLLPRI|POLLERR", "POLLERR", "POLLNVAL"} :
                /\ v = "POLLPRI" => lis.evq # << >>
                /\ lis' = [lis EXCEPT !.pc = "ready", !.v = v, !.polled = TRUE]
    /\ last' = Op("poll", << >>, << >>)
    /\ UNCHANGED <<m, pre, n, keys, pct, call, fn>>

\* len(p) == 0: query_fmt_changes() unless the epoll was closed meanwhile
OnTimeout ==
    /\ lis.pc = "timeout"
    /\ \E gfmt \in BOOLEAN, gparm \in BOOLEAN :
          LET r == query_fmt_changes(m, gfmt, gparm)
          IN  IF lis.closed
              THEN /\ m' = m
                   /\ last' = Op("timeout", << >>, << >>)
              ELSE /\ m' = r.m
                   /\ last' = [Op("timeout", << >>, << >>) EXCEPT !.gfmt = gfmt, !.gparm = gparm, !.cb = r.cb]
    /\ lis' = [lis EXCEPT !.pc = "while"]
    /\ pre' = m
    /\ UNCHANGED <<n, keys, pct, call, fn>>

\* the readiness test and VIDIOC_DQEVENT; an empty queue makes the call fail
Dequeue ==
    /\ lis.pc = "ready"
    /\ \E dqfail \in BOOLEAN :
          /\ lis.evq = << >> => dqfail
          /\ LET event == IF lis.evq = << >> THEN NoEvent ELSE Head(lis.evq)
                 r == run_ready(m, lis.v, event, dqfail)
             IN  /\ lis' = IF r.exits
                           THEN [lis EXCEPT !.pc = "done", !.exited = TRUE,
                                            !.nerr = @ + r.err, !.dqfailed = (r.err = 1)]
                           ELSE [lis EXCEPT !.pc = "event", !.event = event, !.evq = Tail(@)]
                 /\ last' = [Op("dequeue", << >>, << >>) EXCEPT !.v = lis.v, !.event = event, !.dqfail = dqfail,
                                                                !.err = IF r.exits THEN r.err ELSE 0,
                                                                !.dq = r.dq]
    /\ UNCHANGED <<m, pre, n, keys, pct, call, fn>>

\* the assignments from the dequeued event and the callback
Update ==
    /\ lis.pc = "event"
    /\ LET r == run_ready(m, "POLLPRI", lis.event, FALSE)
       IN  /\ m' = r.m
           /\ last' = [Op("update", << >>, << >>) EXCEPT !.event = lis.event, !.cb = r.cb, !.err = r.err]
    /\ lis' = [lis EXCEPT !.pc = "while", !.event = NoEvent]
    /\ pre' = m
    /\ UNCHANGED <<n, keys, pct, call, fn>>

\* the caller calls stop() on the listener
StopThread ==
    /\ lis.pc # "none"
    /\ ~lis.stopreq
    /\ lis' = stop(lis)
    /\ UNCHANGED <<m, pre, last, n, keys, pct, call, fn>>

ListenerStep == LoopTest \/ Poll \/ OnTimeout \/ Dequeue \/ Update

NextThread == subscribe_events \/ ControlChange \/ StopThread \/ ListenerStep

SpecThread == InitThread /\ [][NextThread]_vars

\* the thread is scheduled, and poll(1) returns within its second
SpecThreadFair == SpecThread /\ WF_vars(ListenerStep)

(***************************************************************************)
(* The caller's apply beside the running thread, on the generic control    *)
(* saturation: VIDIOC_S_CTRL with the read-back comparison is one step of  *)
(* the caller, the assignment to ctrl.value the next, and the thread's     *)
(* steps and other processes' changes fall anywhere between them.  The     *)
(* subscription allows feedback, so the caller's own change is queued as   *)
(* an event for the handle like any other.                                 *)
(***************************************************************************)
Saturation == find_by_text_id(m.reg.v4l, "saturation")

InitRace ==
    /\ m = CameraCtrls_init(PlainDevice,
                            DevState(V4L2Vals(1, 1, 1), DevFmt(1, 1), DevIntervals[1], XuOf(PlainDevice)),
                            NoFlags, NoFile)
    /\ keys = {"saturation"}
    /\ pre = m
    /\ last = Idle
    /\ n = 0
    /\ lis = [V4L2Listener_init(NoThread, Len(m.reg.v4l), 0) EXCEPT !.pc = "while"]
    /\ pct = NoPct
    /\ call = NoCall
    /\ fn = NoFn

\* V4L2Ctrls.setup_ctrls up to the comparison of the value VIDIOC_S_CTRL
\* reports: the device changes, and the kernel queues the change
CallerSet ==
    /\ call.pc = "idle"
    /\ n < MaxChanges
    /\ \E intvalue \in {0, 2}, out \in {OutOk, OutFail, OutKeep} :
          LET w == V4L2Write(Fresh(m), Saturation, "saturation", PyInt(intvalue), intvalue, out)
              id == m.reg.v4l[Saturation].v4l2_id
          IN  /\ m' = [m EXCEPT !.dev = w.dev]
              /\ lis' = IF w.dev.v4l[id] # m.dev.v4l[id] /\ Subscribed(lis, Saturation)
                        THEN [lis EXCEPT !.evq = Append(@, [id |-> id, value |-> w.dev.v4l[id], flags |-> 0])]
                        ELSE lis
              /\ call' = [pc |-> "set", i |-> Saturation, value |-> w.reg.v4l[Saturation].value,
                          warned |-> Len(w.errs) > 0]
    /\ n' = n + 1
    /\ UNCHANGED <<pre, last, keys, pct, fn>>

\* the rest of the iteration: ctrl.value = intvalue unless a warning was
\* recorded; setup_ctrls returns
CallerAssign ==
    /\ call.pc = "set"
    /\ m' = IF call.warned THEN m ELSE SetValue(m, "v4l", call.i, call.value)
    /\ call' = NoCall
    /\ UNCHANGED <<pre, last, n, keys, lis, pct, fn>>

NextRace == ControlChange \/ CallerSet \/ CallerAssign \/ ListenerStep

SpecRace == InitRace /\ [][NextRace]_vars

(***************************************************************************)
(* Properties of the listener's life cycle.                                *)
(***************************************************************************)
\* C11: once stop() has been called on the listener its loop eventually
\* exits, and from then on the thread never polls again (its position stays
\* after the loop), dequeues no event (the kernel's queue does not shrink)
\* and invokes no callback (the registry is not written and no step reports
\* a callback).
C11_StoppedIsTerminal ==
    /\ lis.stopreq ~> lis.exited
    /\ [][lis.exited =>
            /\ lis'.exited /\ lis'.pc = "done"
            /\ Len(lis'.evq) >= Len(lis.evq)
            /\ lis'.nerr = lis.nerr
            /\ m'.reg = m.reg
            /\ last' = last]_vars

\* stop() was called while events were still queued; the loop has left
\* through its test, having polled before, and the events stay queued
C11_Witness ==
    /\ lis.stopreq /\ lis.exited /\ ~lis.raised /\ lis.polled /\ ~lis.dqfailed
    /\ lis.evq # << >>

\* C12: a failed VIDIOC_SUBSCRIBE_EVENT in the constructor calls the error
\* callback once, is the last subscription call issued (no retry), and the
\* started thread reaches the end of run() without ever polling; a failed
\* VIDIOC_DQEVENT calls the error callback once, dequeues nothing, and the
\* loop is left at once, so that no other dequeue follows.
C12_FatalFailureEndsListener ==
    /\ [](lis.subfail # 0 =>
            /\ lis.nerr = 1 /\ lis.subs = lis.subfail
            /\ ~lis.polled /\ lis.pc \in {"while", "done"})
    /\ lis.subfail # 0 ~> lis.exited
    /\ [](lis.dqfailed => lis.exited /\ lis.nerr = 1)
    /\ []((last.op = "dequeue" /\ last.v \notin {"POLLERR", "POLLNVAL"} /\ last.dqfail) =>
            last.err = 1 /\ last.dq = 0 /\ lis.exited /\ lis.dqfailed)

\* the second subscription failed while the first control's events are
\* queued: the thread has ended without polling
C12_Witness ==
    /\ lis.subfail = 2 /\ lis.exited /\ ~lis.raised /\ ~lis.polled /\ lis.nerr = 1
    /\ lis.evq # << >>

(***************************************************************************)
(* Properties of the caller's apply beside the thread.                     *)
(***************************************************************************)
\* the caller is in no apply, no event is queued or being handled, and the
\* thread is running with every control subscribed
Quiescent ==
    /\ call.pc = "idle"
    /\ lis.evq = << >> /\ lis.pc \in {"while", "poll", "timeout"}
    /\ ~lis.closed /\ lis.subfail = 0

\* C13: whenever the caller's apply has returned and the thread has handled
\* every queued event, the in-memory value of the control is the value the
\* device holds.
C13_Claimed ==
    Quiescent => m.reg.v4l[Saturation].value = PyInt(m.dev.v4l[m.reg.v4l[Saturation].v4l2_id])

(***************************************************************************)
(* Properties of the vendor backends on a camera that is not theirs.       *)
(***************************************************************************)
VendorBackends == {"kiyo", "logitech", "dell", "anker"}

\* the descriptors do not hold the backend's extension unit, or the
\* vendor:product id is not on the backend's list
NotFound(b, device) ==
    CASE b = "kiyo" -> device.units["eu1"] = 0 \/ device.usb_ids # KIYO_PRO_USB_ID
      [] b = "dell" -> device.units["eu1"] = 0 \/ device.usb_ids \notin DELL_ULTRASHARP_DEV_MATCH
      [] b = "anker" -> device.units["ankerwork"] = 0 \/ device.usb_ids \notin ANKERWORK_DEV_MATCH
      [] b = "logitech" ->
            /\ device.units["logitech_peripheral"] = 0 /\ device.units["logitech_user_hw"] = 0
            /\ device.units["logitech_brio"] = 0 \/ device.usb_ids \notin LOGITECH_BRIO_FOV_DEV_MATCH

\* what supported() of the backend returns
SupportedNow(b) ==
    CASE b = "kiyo" -> Kiyo_supported(m.device)
      [] b = "dell" -> Dell_supported(m.device)
      [] b = "anker" -> Anker_supported(m.device)
      [] b = "logitech" -> Len(m.reg.logitech) # 0

\* the name under which the backend records its warnings
WarningSource(b) ==
    CASE b = "kiyo" -> "KiyoProCtrls"
      [] b = "dell" -> "DellUltraSharpCtrls"
      [] b = "anker" -> "AnkerWorkCtrls"
      [] b = "logitech" -> "LogitechCtrls"

\* C15: a vendor backend whose unit is not in the descriptors, or whose
\* vendor:product id is not on its list, is unsupported in every state, has
\* no control in the list, and in every apply does nothing more than take
\* the batch: no device query and no warning of its own.
C15_UnsupportedIsSilent ==
    \A b \in VendorBackends :
        NotFound(b, m.device) =>
            /\ ~SupportedNow(b)
            /\ m.reg[b] = << >>
            /\ \A y \in 1..Len(m.log) : m.log[y].b = b => m.log[y].op = "setup_ctrls"
            /\ \A x \in 1..Len(m.errs) : m.errs[x].src # WarningSource(b)

\* a camera with the Kiyo Pro's and the AnkerWork's unit but another id was
\* given a batch with keys of both vendors: the keys are reported unknown
C15_Witness ==
    /\ AppliedBatch
    /\ m.device.units["eu1"] # 0 /\ m.device.units["ankerwork"] # 0
    /\ NotFound("kiyo", m.device) /\ NotFound("anker", m.device)
    /\ KeysOf(last.params) = {"kiyo_pro_hdr", "ankerwork_hdr"}
    /\ \E x \in UnknownWarnings : m.errs[x].keys = {"kiyo_pro_hdr", "ankerwork_hdr"}

(***************************************************************************)
(* Properties of the vendor backends' apply.                               *)
(***************************************************************************)
\* the menu entry or the integer the literal v asks of the control
Asked(ctrl, v) ==
    IF ctrl.type = "menu" THEN ctrl.menu[find_by_text_id(ctrl.menu, v)].value ELSE PyInt(IntOf(v))

\* the device holds, in the control's register, what the literal v asks
Holds(b, ctrl, v) ==
    LET a == Asked(ctrl, v)
        eu1 == m.dev.xu[XuReg(pre.device.units["eu1"], EU1_SET_ISP)]
        lreg == m.dev.xu[XuReg(ctrl.unit, ctrl.sel)]
        areg == m.dev.xu[XuReg(pre.device.units["ankerwork"], ctrl.sel)]
    IN  IF b \in {"kiyo", "dell"} THEN eu1 = a
        ELSE IF b = "logitech" THEN lreg[ctrl.off + 1] = IntOf(a)
        ELSE IF a[1] = "bytes" THEN areg = a[2]
        ELSE IF ctrl.text_id = "ankerwork_face_compensation" THEN map_int_to_comp(int_from_bytes(areg)) = IntOf(a)
        ELSE int_from_bytes(areg) % 256 = IntOf(a)

\* C14 as claimed, for apply({id: v}) on a Menu or Integer control of a
\* vendor backend: when the device holds another value after the write, a
\* warning is recorded for the control and its in-memory value is the one it
\* had; the in-memory value is the requested one only when the device holds
\* the requested value.
C14_Claimed ==
    AppliedBatch /\ Len(last.params) = 1 /\ ~m.raised =>
        \A b \in VendorBackends : \A i \in 1..Len(pre.reg[b]) :
            /\ find_by_text_id(pre.reg[b], last.params[1][1]) = i
            /\ Requests(pre.reg[b][i], last.params[1][2])
            => /\ ~Holds(b, pre.reg[b][i], last.params[1][2]) =>
                    /\ WarningsFor(last.params[1][1]) # {}
                    /\ m.reg[b][i].value = pre.reg[b][i].value
               /\ (m.reg[b][i].value # pre.reg[b][i].value /\ Written(m.reg[b][i], last.params[1][2])) =>
                    Holds(b, pre.reg[b][i], last.params[1][2])

(***************************************************************************)
(* The helper functions on their own.  A specification of this part draws  *)
(* the arguments in its initial state and has one action that calls the    *)
(* function.                                                                *)
(***************************************************************************)

(******************** find_unit_id_in_sysfs ********************************)
MaxPad == 2

\* bytes around the guids: 0, the unit id 5, and the first byte of a guid
PadBytes == {0, 5, 208}
Pads == UNION {[1..k -> PadBytes] : k \in 0..MaxPad}

\* what a descriptors file holds where a guid may be: the guid, the guid cut
\* short by a byte, the guid with a wrong byte, or nothing
Bodies(guid) ==
    {guid, SubSeq(guid, 1, Len(guid) - 1), [guid EXCEPT ![8] = 0], << >>}

Blobs(guid) ==
    {p1 \o b1 \o p2 \o b2 : p1 \in Pads, b1 \in Bodies(guid), p2 \in Pads, b2 \in Bodies(guid)}

DescFiles(guid) ==
    {DescFile(FALSE, FALSE, << >>)}
        \cup {DescFile(TRUE, readable, d) : readable \in BOOLEAN, d \in Blobs(guid)}

InitUnit ==
    /\ m = CameraCtrls_init(PlainDevice,
                            DevState(V4L2Vals(1, 1, 1), DevFmt(1, 1), DevIntervals[1], XuOf(PlainDevice)),
                            NoFlags, NoFile)
    /\ pre = m
    /\ last = Idle
    /\ n = 0
    /\ keys = {}
    /\ lis = NoListener
    /\ pct = NoPct
    /\ call = NoCall
    /\ \E guid \in {UVC_EU1_GUID, ANKERWORK_GUID} : \E descfile \in DescFiles(guid) :
            fn = [NoFn EXCEPT !.f = "find_unit_id_in_sysfs",
                              !.arg = [descfile |-> descfile, guid |-> guid]]

\* the call
FindUnit ==
    /\ fn.f = "find_unit_id_in_sysfs" /\ ~fn.done
    /\ fn' = [fn EXCEPT !.res = find_unit_id_in_sysfs(fn.arg.descfile, fn.arg.guid),
                        !.done = TRUE]
    /\ UNCHANGED <<m, pre, last, n, keys, lis, pct, call>>

\* the backend's constructor keeps the result as its unit_id, on a camera
\* whose vendor:product id is the backend's own
UnitDevice(guid, unit_id) ==
    IF guid = UVC_EU1_GUID THEN [KiyoDevice EXCEPT !.units["eu1"] = unit_id]
    ELSE [AnkerDevice EXCEPT !.units["ankerwork"] = unit_id]

UnitSupported(guid, unit_id) ==
    IF guid = UVC_EU1_GUID THEN Kiyo_supported(UnitDevice(guid, unit_id))
    ELSE Anker_supported(UnitDevice(guid, unit_id))

Construct ==
    /\ fn.f = "find_unit_id_in_sysfs" /\ fn.done
    /\ fn' = [fn EXCEPT !.f = "supported",
                        !.res = [ret |-> fn.res.ret, warned |-> fn.res.warned,
                                 supported |-> UnitSupported(fn.arg.guid, fn.res.ret)]]
    /\ UNCHANGED <<m, pre, last, n, keys, lis, pct, call>>

NextUnit == FindUnit \/ Construct

SpecUnit == InitUnit /\ [][NextUnit]_vars

(***************************************************************************)
(* Properties of the unit id's resolution.                                 *)
(***************************************************************************)
\* the guid lies in data from the 0-based index i on
Occurs(data, guid, i) ==
    /\ i >= 0 /\ i + Len(guid) <= Len(data)
    /\ \A k \in 1..Len(guid) : data[i + k] = guid[k]

FirstAt(data, guid, i) ==
    Occurs(data, guid, i) /\ \A j \in 0..(i - 1) : ~Occurs(data, guid, j)

Readable(descfile) == descfile.isfile /\ descfile.readable

\* C16 as claimed: whenever the guid occurs in the descriptors, the result is
\* the byte right before an occurrence; when it does not occur, or there is
\* no descriptors file, the result is 0, and a result of 0 makes the backend
\* unsupported.
C16_Claimed ==
    fn.f = "supported" =>
        LET d == fn.arg.descfile.descriptors
            guid == fn.arg.guid
            found == Readable(fn.arg.descfile) /\ \E i \in 0..Len(d) : Occurs(d, guid, i)
        IN  /\ found => \E i \in 1..Len(d) : Occurs(d, guid, i) /\ fn.res.ret = d[i]
            /\ ~found => fn.res.ret = 0
            /\ fn.res.ret = 0 => ~fn.res.supported

\* C16: the result is the byte right before the guid's first occurrence when
\* that occurrence is not at the start of the descriptors, and 0 in every
\* other case: an occurrence at the start, none, a file that cannot be read
\* (which logs a warning) or no file.  A result of 0 makes the backend
\* unsupported.
C16_UnitIdResolved ==
    fn.f = "supported" =>
        LET d == fn.arg.descfile.descriptors
            guid == fn.arg.guid
            before == Readable(fn.arg.descfile) /\ \E i \in 1..Len(d) : FirstAt(d, guid, i)
        IN  /\ before => \E i \in 1..Len(d) : FirstAt(d, guid, i) /\ fn.res.ret = d[i]
            /\ ~before => fn.res.ret = 0
            /\ fn.res.warned <=> (fn.arg.descfile.isfile /\ ~fn.arg.descfile.readable)
            /\ fn.res.ret = 0 => ~fn.res.supported

\* the guid twice in the descriptors, the first time after the byte 5
C16_Witness ==
    /\ fn.f = "supported" /\ fn.res.ret = 5 /\ fn.res.supported
    /\ Readable(fn.arg.descfile)
    /\ Cardinality({i \in 0..Len(fn.arg.descfile.descriptors) :
                        Occurs(fn.arg.descfile.descriptors, fn.arg.guid, i)}) = 2

(************************ str2pxf and pxf2str ******************************)
\* codes of 8-bit characters: NUL, '1', '2', 'U', 'V', 'Y' and the last one
CharCodes == {0, 49, 50, 85, 86, 89, 255}

FourCCs == {<<"cc", <<a, b, c, d>> >> : a \in CharCodes, b \in CharCodes, c \in CharCodes, d \in CharCodes}

InitFourcc ==
    /\ m = CameraCtrls_init(PlainDevice,
                            DevState(V4L2Vals(1, 1, 1), DevFmt(1, 1), DevIntervals[1], XuOf(PlainDevice)),
                            NoFlags, NoFile)
    /\ pre = m
    /\ last = Idle
    /\ n = 0
    /\ keys = {}
    /\ lis = NoListener
    /\ pct = NoPct
    /\ call = NoCall
    /\ \E s \in FourCCs : fn = [NoFn EXCEPT !.f = "str2pxf", !.arg = s]

\* str2pxf(s)
Encode ==
    /\ fn.f = "str2pxf" /\ ~fn.done
    /\ fn' = [fn EXCEPT !.res = str2pxf(fn.arg), !.done = TRUE]
    /\ UNCHANGED <<m, pre, last, n, keys, lis, pct, call>>

\* pxf2str of the number str2pxf returned
Decode ==
    /\ fn.f = "str2pxf" /\ fn.done
    /\ fn' = [fn EXCEPT !.f = "pxf2str", !.arg = [str |-> fn.arg, pxf |-> fn.res],
                        !.res = pxf2str(fn.res)]
    /\ UNCHANGED <<m, pre, last, n, keys, lis, pct, call>>

NextFourcc == Encode \/ Decode

SpecFourcc == InitFourcc /\ [][NextFourcc]_vars

(***************************************************************************)
(* Properties of the four-character codes.                                 *)
(***************************************************************************)
\* the byte k of a 32-bit number, the lowest being byte 1
ByteOf(x, k) == IF k <= 2 THEN (x[1] \div (256 ^ (k - 1))) % 256 ELSE (x[2] \div (256 ^ (k - 3))) % 256

\* C17: pxf2str(str2pxf(s)) is s; the number str2pxf(s) is below 2^32, holds
\* the character k of s in its byte k counted from the lowest, and is the
\* number v4l2_fourcc makes of the same four characters.
C17_FourccRoundTrip ==
    fn.f = "pxf2str" =>
        LET s == fn.arg.str
            pxf == fn.arg.pxf
        IN  /\ fn.res = s
            /\ pxf[1] \in 0..65535 /\ pxf[2] \in 0..65535
            /\ \A k \in 1..4 : ByteOf(pxf, k) = s[2][k]
            /\ pxf = v4l2_fourcc(s[2][1], s[2][2], s[2][3], s[2][4])

\* "YUYV" went through both functions: 0x56595559
C17_Witness ==
    /\ fn.f = "pxf2str"
    /\ fn.arg.str = <<"cc", <<89, 85, 89, 86>> >>
    /\ fn.arg.pxf = <<21849, 22105>>
    /\ fn.res = <<"cc", <<89, 85, 89, 86>> >>

(***************************** set_fps **************************************)
\* fps strs with no, one and two decimals, such as "30", "29.9" and "29.97"
FpsWholes == {7, 15, 29, 30}
FpsStrs ==
    {Num(w) : w \in FpsWholes}
        \cup {<<"dec", 10 * w + d>> : w \in FpsWholes, d \in {0, 5, 9}}
        \cup {<<"hun", 100 * w + h>> : w \in FpsWholes, h \in {0, 7, 93, 97}}

InitFps ==
    /\ \E t \in 1..Len(DevIntervals) :
          m = CameraCtrls_init(PlainDevice,
                               DevState(V4L2Vals(1, 1, 1), DevFmt(1, 1), DevIntervals[t], XuOf(PlainDevice)),
                               NoFlags, NoFile)
    /\ pre = m
    /\ last = Idle
    /\ n = 0
    /\ keys = {}
    /\ lis = NoListener
    /\ pct = NoPct
    /\ call = NoCall
    /\ \E fps \in FpsStrs : fn = [NoFn EXCEPT !.f = "set_fps", !.arg = fps]

\* set_fps(ctrl, fps, errs), ctrl the fps control
SetFps ==
    /\ fn.f = "set_fps" /\ ~fn.done
    /\ \E out \in {OutOk, OutFail, OutKeep, OutGFail} :
          /\ m' = set_fps(Fresh(m), find_by_text_id(m.reg.fmt, "fps"), fn.arg, out)
          /\ last' = Op("set_fps", << <<"fps", fn.arg>> >>, <<out>>)
    /\ pre' = Fresh(m)
    /\ fn' = [fn EXCEPT !.done = TRUE]
    /\ UNCHANGED <<n, keys, lis, pct, call>>

NextFps == SetFps

SpecFps == InitFps /\ [][NextFps]_vars

(***************************************************************************)
(* Properties of the frame rate's write.                                   *)
(***************************************************************************)
\* the VIDIOC_S_PARM requests of the last operation
SentParms == {y \in 1..Len(m.log) : m.log[y].op = "S_PARM"}

SharedKeys ==
    {"logitech_led1_mode", "logitech_led1_frequency",
     "ankerwork_face_compensation_enable", "ankerwork_face_compensation"}

SharedBackend(k) ==
    IF k \in {"logitech_led1_mode", "logitech_led1_frequency"} THEN "logitech" ELSE "anker"

SharedReg(k) ==
    LET b == SharedBackend(k)
        ctrl == pre.reg[b][find_by_text_id(pre.reg[b], k)]
    IN  IF b = "logitech" THEN XuReg(ctrl.unit, ctrl.sel)
        ELSE XuReg(pre.device.units["ankerwork"], ctrl.sel)

OwnBytes(k) ==
    LET b == SharedBackend(k)
        ctrl == pre.reg[b][find_by_text_id(pre.reg[b], k)]
    IN  IF b = "logitech" THEN {ctrl.off + 1}
        ELSE IF k = "ankerwork_face_compensation_enable" THEN {1}
        ELSE {2}

\* the UVC_SET_CUR requests of the last operation for the key k
SetCurs(k) == {y \in 1..Len(m.log) : m.log[y].op = "SET_CUR" /\ m.log[y].key = k}

\* C19 as claimed, for apply({k: v}) on a control that is one field of a
\* shared register: every set-current payload is as long as the register and
\* holds, outside the control's own bytes, the bytes the device held when the
\* apply began.
C19_Claimed ==
    AppliedBatch /\ Len(last.params) = 1 =>
        \A k \in SharedKeys :
            (last.params[1][1] = k /\ find_by_text_id(pre.reg[SharedBackend(k)], k) # 0) =>
                \A y \in SetCurs(k) :
                    /\ Len(m.log[y].val) = Len(pre.dev.xu[SharedReg(k)])
                    /\ \A p \in 1..Len(pre.dev.xu[SharedReg(k)]) :
                            p \notin OwnBytes(k) => m.log[y].val[p] = pre.dev.xu[SharedReg(k)][p]

(******************** the face compensation's register ********************)
\* the magnitudes the register may hold before the apply
CompBefore == {0, 35, 100}

FaceCompReg == XuReg(AnkerDevice.units["ankerwork"], ANKERWORK_FACE_EXPOSURE_COMP_SELECTOR)

InitComp ==
    /\ \E e \in {0, 1}, mag \in CompBefore :
          m = CameraCtrls_init(AnkerDevice,
                               DevState(V4L2Vals(1, 1, 1), DevFmt(1, 1), DevIntervals[1],
                                        [XuOf(AnkerDevice) EXCEPT ![FaceCompReg] = <<e, mag>>]),
                               NoFlags, NoFile)
    /\ pre = m
    /\ last = Idle
    /\ n = 0
    /\ keys = {}
    /\ lis = NoListener
    /\ pct = NoPct
    /\ call = NoCall
    /\ \E v \in 0..100 : fn = [NoFn EXCEPT !.f = "setup_ctrls", !.arg = v]

\* AnkerWorkCtrls.setup_ctrls({'ankerwork_face_compensation': v}, errs)
SetComp ==
    /\ fn.f = "setup_ctrls" /\ ~fn.done
    /\ \E out \in {OutOk, OutFail, OutGFail} :
          /\ m' = Anker_setup_ctrls(Fresh(m), << <<"ankerwork_face_compensation", Num(fn.arg)>> >>, <<out>>)
          /\ last' = Op("anker_apply", << <<"ankerwork_face_compensation", Num(fn.arg)>> >>, <<out>>)
    /\ pre' = Fresh(m)
    /\ fn' = [fn EXCEPT !.done = TRUE]
    /\ UNCHANGED <<n, keys, lis, pct, call>>

NextComp == SetComp

SpecComp == InitComp /\ [][NextComp]_vars

(***************************************************************************)
(* Properties of the face compensation's register.                         *)
(***************************************************************************)
\* C20 as claimed, for setup_ctrls({'ankerwork_face_compensation': v}) with
\* v in 0..100, the register's low byte being e and every ioctl succeeding:
\* the call returns, and it sends one set-current payload, of two bytes,
\* whose little-endian value is 256 * v + e; shifted right by 8 that value is
\* v, and its low byte is e.
C20_Claimed ==
    (last.op = "anker_apply" /\ last.outs[1] = OutOk) =>
        LET e == pre.dev.xu[FaceCompReg][1]
            sent == SetCurs("ankerwork_face_compensation")
        IN  /\ ~m.raised
            /\ Cardinality(sent) = 1
            /\ \A y \in sent :
                    /\ Len(m.log[y].val) = 2
                    /\ int_from_bytes(m.log[y].val) = 256 * fn.arg + e
                    /\ map_int_to_comp(int_from_bytes(m.log[y].val)) = fn.arg
                    /\ m.log[y].val[1] = e

(***************************************************************************)
(* The Kiyo Pro backend on its own, on a Kiyo Pro.                         *)
(***************************************************************************)
MaxKiyoBatch == 2

\* for each control, the entries of its menu and one that is not in it
KiyoLiterals(k) ==
    LET ctrl == m.reg.kiyo[find_by_text_id(m.reg.kiyo, k)]
    IN  {ctrl.menu[j].text_id : j \in 1..Len(ctrl.menu)} \cup {Str("nope")}

KiyoBatches ==
    {params \in UNION {[1..len -> UNION {{<<k, v>> : v \in KiyoLiterals(k)} : k \in TextIds(m.reg.kiyo)}] :
                          len \in 1..MaxKiyoBatch} :
        DistinctKeys(params)}

InitKiyo ==
    /\ m = CameraCtrls_init(KiyoDevice,
                            DevState(V4L2Vals(1, 1, 1), DevFmt(1, 1), DevIntervals[1], XuOf(KiyoDevice)),
                            NoFlags, NoFile)
    /\ keys = TextIds(m.reg.kiyo)
    /\ pre = m
    /\ last = Idle
    /\ n = 0
    /\ lis = NoListener
    /\ pct = NoPct
    /\ call = NoCall
    /\ fn = NoFn

\* KiyoProCtrls.setup_ctrls(params, errs)
KiyoApply ==
    /\ last.op = "idle"
    /\ n < MaxApplies
    /\ \E params \in KiyoBatches : \E outs \in [1..Len(params) -> {OutOk, OutFail}] :
          /\ m' = Kiyo_setup_ctrls(Fresh(m), params, outs)
          /\ last' = Op("kiyo_apply", params, outs)
    /\ pre' = Fresh(m)
    /\ n' = n + 1
    /\ UNCHANGED <<keys, lis, pct, call, fn>>

NextKiyo == KiyoApply \/ Return

SpecKiyo == InitKiyo /\ [][NextKiyo]_vars

(***************************************************************************)
(* Properties of the Kiyo Pro's commands.                                  *)
(***************************************************************************)
\* the menu entry the j-th pair of the batch names, 0 when there is none
KiyoEntry(j) ==
    find_by_text_id(pre.reg.kiyo[find_by_text_id(pre.reg.kiyo, last.params[j][1])].menu, last.params[j][2])

\* C21: for each pair of a batch given to the Kiyo Pro backend, an entry with
\* a pre command sends two set-current commands, next to each other, the pre
\* command and then the main one; any other entry sends the main command
\* alone; a value that is no entry of the menu sends nothing.
C21_PreThenMain ==
    last.op = "kiyo_apply" =>
        \A j \in 1..Len(last.params) :
            LET k == last.params[j][1]
                ctrl == pre.reg.kiyo[find_by_text_id(pre.reg.kiyo, k)]
                sent == SetCurs(k)
            IN  IF KiyoEntry(j) = 0 THEN sent = {}
                ELSE IF ctrl.menu[KiyoEntry(j)].before # None
                THEN \E y \in 1..Len(m.log) :
                        /\ sent = {y, y + 1}
                        /\ m.log[y].val = ctrl.menu[KiyoEntry(j)].before
                        /\ m.log[y + 1].val = ctrl.menu[KiyoEntry(j)].value
                ELSE \E y \in 1..Len(m.log) :
                        /\ sent = {y}
                        /\ m.log[y].val = ctrl.menu[KiyoEntry(j)].value

\* a batch that sets the field of view to narrow and then HDR on: three
\* commands
C21_Witness ==
    /\ last.op = "kiyo_apply"
    /\ last.params = << <<"kiyo_pro_fov", Str("narrow")>>, <<"kiyo_pro_hdr", Str("on")>> >>
    /\ Len(m.log) = 3
    /\ m.log[1].val = <<"bytes", "FOV_NARROW_PRE">>
    /\ m.log[2].val = <<"bytes", "FOV_NARROW">>
    /\ m.log[3].val = <<"bytes", "HDR_ON">>

(***************************************************************************)
(* The extension-unit queries on their own, on the cameras whose registers *)
(* have lengths from 1 to 7.                                               *)
(***************************************************************************)
MaxQueries == 2

InitXu ==
    /\ \E device \in {LogitechDevice, BrioDevice, AnkerDevice} :
          m = CameraCtrls_init(device,
                               DevState(V4L2Vals(1, 1, 1), DevFmt(1, 1), DevIntervals[1], XuOf(device)),
                               NoFlags, NoFile)
    /\ keys = {}
    /\ pre = m
    /\ last = Idle
    /\ n = 0
    /\ lis = NoListener
    /\ pct = NoPct
    /\ call = NoCall
    /\ fn = [NoFn EXCEPT !.f = "query_xu_control"]

\* one call of query_xu_control, by any of the backends
QueryXu ==
    /\ fn.f = "query_xu_control"
    /\ n < MaxQueries
    /\ \E reg \in DOMAIN m.dev.xu, query \in {UVC_GET_CUR, UVC_GET_MIN, UVC_GET_MAX, UVC_SET_CUR},
          lenfailed \in BOOLEAN, failed \in BOOLEAN :
          fn' = [fn EXCEPT !.arg = <<reg, query>>,
                           !.res = query_xu_control(fn.res, m.dev.xu, reg, query, lenfailed, failed)]
    /\ n' = n + 1
    /\ UNCHANGED <<m, pre, last, keys, lis, pct, call>>

NextXu == QueryXu

SpecXu == InitXu /\ [][NextXu]_vars

(***************************************************************************)
(* Properties of the extension-unit queries.                               *)
(***************************************************************************)
\* the ioctls that are not get-length queries
Sized == {p \in 1..Len(fn.res) : fn.res[p].query # UVC_GET_LEN}

AfterGetLen(p) ==
    /\ p > 1
    /\ fn.res[p - 1].query = UVC_GET_LEN
    /\ fn.res[p - 1].unit = fn.res[p].unit
    /\ fn.res[p - 1].selector = fn.res[p].selector

FmtKeys == {"pixelformat", "resolution", "fps"}

\* the entries of the control's menu
FmtLiterals(k) ==
    LET ctrl == m.reg.fmt[find_by_text_id(m.reg.fmt, k)]
    IN  {ctrl.menu[j].text_id : j \in 1..Len(ctrl.menu)}

InitFmt ==
    /\ \E i \in 1..Len(DevFormats), j \in 1..Len(DevSizes), t \in 1..Len(DevIntervals) :
          m = CameraCtrls_init(PlainDevice,
                               DevState(V4L2Vals(1, 1, 1), DevFmt(i, j), DevIntervals[t], XuOf(PlainDevice)),
                               NoFlags, NoFile)
    /\ keys = FmtKeys
    /\ pre = m
    /\ last = Idle
    /\ n = 0
    /\ lis = NoListener
    /\ pct = NoPct
    /\ call = NoCall
    /\ fn = NoFn

\* V4L2FmtCtrls.setup_ctrls({k: v}, errs)
FmtApply ==
    /\ last.op = "idle"
    /\ n < MaxApplies
    /\ \E k \in FmtKeys : \E v \in FmtLiterals(k) : \E out \in {OutOk, OutFail, OutKeep, OutGFail} :
          /\ m' = Fmt_setup_ctrls(Fresh(m), << <<k, v>> >>, <<out>>)
          /\ last' = Op("fmt_apply", << <<k, v>> >>, <<out>>)
    /\ pre' = Fresh(m)
    /\ n' = n + 1
    /\ UNCHANGED <<keys, lis, pct, call, fn>>

NextFmt == FmtApply \/ Return

SpecFmt == InitFmt /\ [][NextFmt]_vars

(***************************************************************************)
(* Properties of the format controls' writes.                              *)
(***************************************************************************)
\* the fields of the structure written for the control k that are not the
\* control's own
OtherFields(k) ==
    IF k = "pixelformat" THEN {"width", "height"}
    ELSE IF k = "resolution" THEN {"pixelformat"}
    ELSE {"capability", "capturemode", "extendedmode", "readbuffers"}

\* the structure the device would have answered a read with when the apply
\* began
ReadBefore(k) == IF k = "fps" THEN DevGetParm(pre.dev) ELSE pre.dev.fmt

\* the device now reports the value v for the control k
Reports(k, v) ==
    IF k = "pixelformat" THEN pxf2str(m.dev.fmt.pixelformat) = v
    ELSE IF k = "resolution" THEN wh2str(m.dev.fmt) = v
    ELSE FpsHundredths(v) * m.dev.parm.numerator = 100 * m.dev.parm.denominator

FmtValue(s, k) == s.reg.fmt[find_by_text_id(s.reg.fmt, k)].value

\* C23 as claimed, for setup_ctrls({k: v}) on one of the three format
\* controls: every structure written holds, in the fields that are not the
\* control's own, what the device held when the apply began; and when the
\* device does not report v after a write, a warning is recorded and the
\* cached value is the one it was.
C23_Claimed ==
    last.op = "fmt_apply" =>
        LET k == last.params[1][1]
            v == last.params[1][2]
            written == LogAt({"S_FMT", "S_PARM"}, k)
        IN  /\ \A y \in written : \A f \in OtherFields(k) : m.log[y].val[f] = ReadBefore(k)[f]
            /\ (written # {} /\ ~Reports(k, v)) =>
                    WarningsFor(k) # {} /\ FmtValue(m, k) = FmtValue(pre, k)

(*************************** get_resolutions *******************************)
MaxSizes == 3

\* discrete frame sizes a camera may enumerate, in any order
FrameSizes ==
    {[width |-> 320, height |-> 240], [width |-> 640, height |-> 480], [width |-> 800, height |-> 600],
     [width |-> 848, height |-> 480], [width |-> 1280, height |-> 720]}

SizeLists ==
    {sizes \in UNION {[1..len -> FrameSizes] : len \in 1..MaxSizes} :
        \A a \in 1..Len(sizes) : \A b \in 1..Len(sizes) : a # b => sizes[a] # sizes[b]}

InitRes ==
    /\ m = CameraCtrls_init(PlainDevice,
                            DevState(V4L2Vals(1, 1, 1), DevFmt(1, 1), DevIntervals[1], XuOf(PlainDevice)),
                            NoFlags, NoFile)
    /\ pre = m
    /\ last = Idle
    /\ n = 0
    /\ keys = {}
    /\ lis = NoListener
    /\ pct = NoPct
    /\ call = NoCall
    /\ \E sizes \in SizeLists : fn = [NoFn EXCEPT !.f = "get_resolutions", !.arg = sizes]

\* get_resolutions(pixelformat) on a device that enumerates the sizes
GetResolutions ==
    /\ fn.f = "get_resolutions" /\ ~fn.done
    /\ fn' = [fn EXCEPT !.res = get_resolutions_from(fn.arg), !.done = TRUE]
    /\ UNCHANGED <<m, pre, last, n, keys, lis, pct, call>>

NextRes == GetResolutions

SpecRes == InitRes /\ [][NextRes]_vars

(***************************************************************************)
(* Properties of the resolution menu.                                      *)
(***************************************************************************)
\* width times height of a resolution str
Area(wh) == wh[2][1] * wh[2][2]

\* C24 as claimed: of any two entries of the list get_resolutions returns,
\* the earlier one has at least the pixel area of the later one.
C24_Claimed ==
    (fn.f = "get_resolutions" /\ fn.done) =>
        \A a \in 1..Len(fn.res) : \A b \in 1..Len(fn.res) :
            a < b => Area(fn.res[a]) >= Area(fn.res[b])

(*************************** get_ctrl_pages ********************************)
V4L2_CTRL_CLASS_MASK == 16711680
V4L2_CID_BASE == 9963776
V4L2_CID_CODEC_BASE == 10029312
V4L2_CID_CAMERA_CLASS_BASE == 10094848
V4L2_CID_JPEG_CLASS_BASE == 10291456
V4L2_CID_IMAGE_SOURCE_CLASS_BASE == 10356992
V4L2_CID_IMAGE_PROC_CLASS_BASE == 10422528

\* str.startswith
startswith(s, prefix) == Len(prefix) <= Len(s) /\ SubSeq(s, 1, Len(prefix)) = prefix

\* id & V4L2_CTRL_CLASS_MASK
ClassOf(id) == ((id \div 65536) % 256) * 65536

\* the predicates the three pop functions hand to find_idx; a control built
\* by another backend than V4L2Ctrls has no v4l2_id attribute (0 here)
ByTextId(text_id) == [by |-> "text_id", text_id |-> text_id, id |-> 0]
ById(id) == [by |-> "id", text_id |-> "", id |-> id]
ByBaseId(base_id) == [by |-> "base_id", text_id |-> "", id |-> base_id]

Matches(c, sel) ==
    CASE sel.by = "text_id" -> startswith(c.text_id, sel.text_id)
      [] sel.by = "id" -> c.v4l2_id # 0 /\ c.v4l2_id = sel.id
      [] sel.by = "base_id" -> c.v4l2_id # 0 /\ ClassOf(c.v4l2_id) = ClassOf(sel.id)

\* find_idx: the first index whose control matches, 0 for None
RECURSIVE FindIdxFrom(_, _, _)
FindIdxFrom(ctrls, sel, i) ==
    IF i > Len(ctrls) THEN 0
    ELSE IF Matches(ctrls[i], sel) THEN i
    ELSE FindIdxFrom(ctrls, sel, i + 1)

find_idx(ctrls, sel) == FindIdxFrom(ctrls, sel, 1)

\* list.pop(idx)
ListPop(ctrls, idx) == SubSeq(ctrls, 1, idx - 1) \o SubSeq(ctrls, idx + 1, Len(ctrls))

\* the while True loop of the pop functions: st.ret grows, st.ctrls shrinks
RECURSIVE PopWhile(_, _)
PopWhile(st, sel) ==
    LET idx == find_idx(st.ctrls, sel)
    IN  IF idx # 0
        THEN PopWhile([ret |-> Append(st.ret, st.ctrls[idx]), ctrls |-> ListPop(st.ctrls, idx)], sel)
        ELSE st

\* the for loop of the pop functions over the text ids or ids; on an empty
\* list no find_idx finds anything, so the loop is cut short there (the test
\* also has TLC evaluate st before the next pass instead of nesting the
\* passes)
RECURSIVE PopEach(_, _, _)
PopEach(st, sels, j) ==
    IF j > Len(sels) \/ Len(st.ctrls) = 0 THEN st
    ELSE PopEach(PopWhile(st, sels[j]), sels, j + 1)

pop_list_by_text_ids(ctrls, text_ids) ==
    PopEach([ret |-> << >>, ctrls |-> ctrls], [j \in 1..Len(text_ids) |-> ByTextId(text_ids[j])], 1)

pop_list_by_base_id(ctrls, base_id) ==
    PopWhile([ret |-> << >>, ctrls |-> ctrls], ByBaseId(base_id))

pop_list_by_ids(ctrls, ids) ==
    PopEach([ret |-> << >>, ctrls |-> ctrls], [j \in 1..Len(ids) |-> ById(ids[j])], 1)

CtrlCategory(title, ctrls) == [title |-> title, ctrls |-> ctrls]
CtrlPage(title, categories, target) == [title |-> title, categories |-> categories, target |-> target]

\* list.insert(-1, x): before the last element
InsertBeforeLast(s, x) ==
    IF Len(s) = 0 THEN << x >> ELSE Append(SubSeq(s, 1, Len(s) - 1), x) \o << s[Len(s)] >>

\* the filter at the end of get_ctrl_pages
NonEmptyCategories(page) ==
    [page EXCEPT !.categories = SelectSeq(@, LAMBDA cat : Len(cat.ctrls) # 0)]

NonEmptyPages(pages) ==
    SelectSeq([p \in 1..Len(pages) |-> NonEmptyCategories(pages[p])],
              LAMBDA page : Len(page.categories) # 0)

\* the pages as the list literal builds them, each pop working on what the
\* earlier ones left; rest is what no pop took
PagesLiteral(ctrls0) ==
    LET C == V4L2_CID_CAMERA_CLASS_BASE
        U == V4L2_CID_BASE
        crop1 == pop_list_by_text_ids(ctrls0,
                    << "kiyo_pro_fov", "logitech_brio_fov", "dell_ultrasharp_fov",
                       "dell_ultrasharp_auto_framing", "dell_ultrasharp_camera_transition",
                       "dell_ultrasharp_tracking_sensitivity", "dell_ultrasharp_tracking_frame_size",
                       "ankerwork_fov", "ankerwork_auto_framing", "ankerwork_hor_flip" >>)
        \* zoom absolute, continuous, absolute, relative; pan absolute, relative,
        \* reset, speed; tilt absolute, relative, reset, speed
        crop2 == pop_list_by_ids(crop1.ctrls,
                    << C + 13, C + 15, C + 13, C + 14, C + 8, C + 4, V4L2_CID_PAN_RESET, C + 32,
                       C + 9, C + 5, C + 7, C + 33 >>)
        crop3 == pop_list_by_text_ids(crop2.ctrls, << "logitech_pan_", "logitech_tilt_", "logitech_pantilt" >>)
        \* focus auto, relative, absolute; auto focus start, stop, range, status
        focus1 == pop_list_by_ids(crop3.ctrls, << C + 12, C + 11, C + 10, C + 28, C + 29, C + 31, C + 30 >>)
        focus2 == pop_list_by_text_ids(focus1.ctrls,
                    << "kiyo_pro_af_mode", "logitech_motor_focus", "ankerwork_face_focus" >>)
        \* exposure auto, absolute, auto priority; autogain; exposure; metering;
        \* auto exposure bias; gain; analogue gain; digital gain; chroma agc,
        \* gain; iris absolute, relative; image stabilization; scene mode; 3a
        \* lock; camera orientation, sensor rotation
        exposure == pop_list_by_ids(focus2.ctrls,
                    << C + 1, C + 2, C + 3, U + 18, U + 17, C + 25, C + 19, U + 19,
                       V4L2_CID_IMAGE_SOURCE_CLASS_BASE + 3, V4L2_CID_IMAGE_PROC_CLASS_BASE + 5,
                       U + 29, U + 36, C + 17, C + 18, C + 22, C + 26, C + 27, C + 34, C + 35 >>)
        iso == pop_list_by_ids(exposure.ctrls, << C + 23, C + 24 >>)
        \* backlight compensation, wide dynamic range, hdr sensor mode
        range1 == pop_list_by_ids(iso.ctrls, << U + 28, C + 21, C + 36 >>)
        range2 == pop_list_by_text_ids(range1.ctrls,
                    << "kiyo_pro_hdr", "dell_ultrasharp_hdr", "ankerwork_hdr",
                       "ankerowrk_face_compensation_enable", "ankerwork_face_compensation" >>)
        preset == pop_list_by_text_ids(range2.ctrls, << "color_preset" >>)
        \* auto white balance, auto n preset white balance, white balance
        \* temperature, do white balance, red balance, blue balance
        balance == pop_list_by_ids(preset.ctrls,
                    << V4L2_CID_AUTO_WHITE_BALANCE, C + 20, U + 26, U + 13, U + 14, U + 15 >>)
        \* autobrightness, brightness, contrast, saturation, sharpness, hue auto,
        \* hue, gamma, color killer, band stop filter, bg color
        color == pop_list_by_ids(balance.ctrls,
                    << U + 32, V4L2_CID_BRIGHTNESS, V4L2_CID_CONTRAST, V4L2_CID_SATURATION, U + 27,
                       U + 25, U + 3, U + 16, U + 30, U + 33, U + 35 >>)
        effects == pop_list_by_ids(color.ctrls, << U + 31, U + 42, U + 43 >>)
        power == pop_list_by_ids(effects.ctrls, << V4L2_CID_POWER_LINE_FREQUENCY >>)
        privacy == pop_list_by_ids(power.ctrls, << C + 16 >>)
        \* rotate, hflip, vflip
        rotate == pop_list_by_ids(privacy.ctrls, << U + 34, U + 20, U + 21 >>)
        source == pop_list_by_base_id(rotate.ctrls, V4L2_CID_IMAGE_SOURCE_CLASS_BASE)
        process == pop_list_by_base_id(source.ctrls, V4L2_CID_IMAGE_PROC_CLASS_BASE)
        daemon == pop_list_by_text_ids(process.ctrls, << "systemd_cameractrlsd", "desktop_portal_cameractrlsd" >>)
        codec == pop_list_by_base_id(daemon.ctrls, V4L2_CID_CODEC_BASE)
        jpeg == pop_list_by_base_id(codec.ctrls, V4L2_CID_JPEG_CLASS_BASE)
        info == pop_list_by_text_ids(jpeg.ctrls, << "card", "driver", "path", "real_path" >>)
        save == pop_list_by_text_ids(info.ctrls, << "kiyo_pro_save", "preset" >>)
    IN  [pages |->
            << CtrlPage("Basic", << CtrlCategory("Crop", crop1.ret \o crop2.ret \o crop3.ret),
                                    CtrlCategory("Focus", focus1.ret \o focus2.ret) >>, "main"),
               CtrlPage("Exposure", << CtrlCategory("Exposure", exposure.ret),
                                       CtrlCategory("ISO", iso.ret),
                                       CtrlCategory("Dynamic Range", range1.ret \o range2.ret) >>, "main"),
               CtrlPage("Color", << CtrlCategory("Color Preset", preset.ret),
                                    CtrlCategory("Balance", balance.ret),
                                    CtrlCategory("Color", color.ret),
                                    CtrlCategory("Effects", effects.ret) >>, "main"),
               CtrlPage("Advanced", << CtrlCategory("Power Line", power.ret),
                                       CtrlCategory("Privacy", privacy.ret),
                                       CtrlCategory("Rotate/Flip", rotate.ret),
                                       CtrlCategory("Image Source Control", source.ret),
                                       CtrlCategory("Image Process Control", process.ret),
                                       CtrlCategory("Cameractrlsd", daemon.ret) >>, "main"),
               CtrlPage("Compression", << CtrlCategory("Codec", codec.ret),
                                          CtrlCategory("JPEG", jpeg.ret) >>, "main"),
               CtrlPage("Info", << CtrlCategory("Info", info.ret) >>, "main"),
               CtrlPage("Settings", << CtrlCategory("Save", save.ret) >>, "footer") >>,
         rest |-> save.ctrls]

\* get_ctrl_pages without the catch-all category
get_ctrl_pages_NoOther(ctrls) == NonEmptyPages(PagesLiteral(ctrls).pages)

\* CameraCtrls.get_ctrl_pages on the list get_ctrls() returns
get_ctrl_pages(ctrls) ==
    LET lit == PagesLiteral(ctrls)
        pages == [lit.pages EXCEPT ![4].categories = InsertBeforeLast(@, CtrlCategory("Other", lit.rest))]
    IN  NonEmptyPages(pages)

\* the camera whose controls are presented: any of the devices, with any
\* current values of its generic controls
InitPages ==
    /\ \E device \in Devices, sat \in 0..2, awb \in 0..1, plf \in 0..1 :
          m = CameraCtrls_init(device,
                               DevState(V4L2Vals(sat, awb, plf), DevFmt(1, 1), DevIntervals[1], XuOf(device)),
                               NoFlags, NoFile)
    /\ pre = m
    /\ last = Idle
    /\ n = 0
    /\ keys = {}
    /\ lis = NoListener
    /\ pct = NoPct
    /\ call = NoCall
    /\ fn = [NoFn EXCEPT !.f = "get_ctrl_pages"]

\* a front end asks for the pages
GetCtrlPages ==
    /\ fn.f = "get_ctrl_pages" /\ ~fn.done
    /\ fn' = [fn EXCEPT !.res = get_ctrl_pages(get_ctrls(m.reg)), !.done = TRUE]
    /\ UNCHANGED <<m, pre, last, n, keys, lis, pct, call>>

NextPages == GetCtrlPages

SpecPages == InitPages /\ [][NextPages]_vars

(***************************************************************************)
(* Properties of the presentation partitioning.                            *)
(***************************************************************************)
\* the returned categories, as (page, category) positions
CategoriesOf(pages) ==
    UNION {{<<p, q>> : q \in 1..Len(pages[p].categories)} : p \in 1..Len(pages)}

\* the places (page, category, index) where control c is presented
PlacesOf(pages, c) ==
    UNION {{<<pq[1], pq[2], i>> : i \in {i \in 1..Len(pages[pq[1]].categories[pq[2]].ctrls) :
                                            pages[pq[1]].categories[pq[2]].ctrls[i] = c}} :
           pq \in CategoriesOf(pages)}

\* c is matched by no named group: alone in the list, no pop takes it
Unclaimed(c) == PagesLiteral(<< c >>).rest # << >>

\* C25: once get_ctrl_pages has returned, every control of the merged
\* registry is presented at exactly one place, nothing else is presented,
\* the controls no named group matches are in the category "Other", and no
\* returned page or category is empty.
C25_Partition ==
    (fn.f = "get_ctrl_pages" /\ fn.done) =>
        LET ctrls == get_ctrls(m.reg)
            pages == fn.res
        IN  /\ \A k \in 1..Len(ctrls) :
                Cardinality(PlacesOf(pages, ctrls[k])) =
                    Cardinality({k2 \in 1..Len(ctrls) : ctrls[k2] = ctrls[k]})
            /\ \A pq \in CategoriesOf(pages) :
                   LET cat == pages[pq[1]].categories[pq[2]]
                   IN  /\ Len(cat.ctrls) # 0
                       /\ \A i \in 1..Len(cat.ctrls) : \E k \in 1..Len(ctrls) : ctrls[k] = cat.ctrls[i]
            /\ \A p \in 1..Len(pages) : Len(pages[p].categories) # 0
            /\ \A k \in 1..Len(ctrls) :
                   Unclaimed(ctrls[k]) =>
                       \A pl \in PlacesOf(pages, ctrls[k]) :
                           pages[pl[1]].categories[pl[2]].title = "Other"
            /\ Cardinality({pq \in CategoriesOf(pages) :
                                pages[pq[1]].categories[pq[2]].title = "Other"}) <= 1

\* the pages of the Kiyo Pro: its field of view under Crop, the format
\* controls under Other, and the Compression page dropped as empty
C25_Witness ==
    /\ fn.f = "get_ctrl_pages" /\ fn.done
    /\ m.device = KiyoDevice
    /\ \E pq \in CategoriesOf(fn.res) :
           /\ fn.res[pq[1]].categories[pq[2]].title = "Crop"
           /\ \E i \in 1..Len(fn.res[pq[1]].categories[pq[2]].ctrls) :
                  fn.res[pq[1]].categories[pq[2]].ctrls[i].text_id = "kiyo_pro_fov"
    /\ \E pq \in CategoriesOf(fn.res) :
           /\ fn.res[pq[1]].categories[pq[2]].title = "Other"
           /\ \E i \in 1..Len(fn.res[pq[1]].categories[pq[2]].ctrls) :
                  fn.res[pq[1]].categories[pq[2]].ctrls[i].text_id = "pixelformat"
    /\ \A p \in 1..Len(fn.res) : fn.res[p].title # "Compression"

(*********************** the enumeration loop ******************************)
V4L2_CTRL_TYPE_INTEGER64 == 5
V4L2_CID_LINK_FREQ == 10422529
V4L2_CID_PIXEL_RATE == 10422530

\* the descriptors a device may expose, by increasing id: those of
\* QueryCtrls, an integer menu whose per-index queries all fail, and a
\* 64 bit integer control
EnumPool ==
    QueryCtrls \o
    << [id |-> V4L2_CID_LINK_FREQ, type |-> V4L2_CTRL_TYPE_INTEGER_MENU, name |-> "Link Frequency",
        minimum |-> 0, maximum |-> 1, step |-> 1, default |-> 0],
       [id |-> V4L2_CID_PIXEL_RATE, type |-> V4L2_CTRL_TYPE_INTEGER64, name |-> "Pixel Rate",
        minimum |-> 0, maximum |-> 2, step |-> 1, default |-> 0] >>

\* a device: the descriptors it exposes, the current values, and the ids
\* whose VIDIOC_G_CTRL fails
EnumDevice(which, sat, gfail) ==
    [qctrls |-> SelectSeq(EnumPool, LAMBDA q : q.id \in which),
     vals |-> [id \in {EnumPool[i].id : i \in 1..Len(EnumPool)} |->
                  IF id = V4L2_CID_SATURATION THEN sat ELSE IF id \in V4L2Ids THEN 1 ELSE 0],
     gfail |-> gfail]

\* VIDIOC_QUERYCTRL with id | V4L2_CTRL_FLAG_NEXT_CTRL | V4L2_CTRL_FLAG_NEXT_COMPOUND:
\* the index of the first descriptor with a greater id, 0 when the ioctl fails
RECURSIVE QueryNextFrom(_, _, _)
QueryNextFrom(qctrls, id, i) ==
    IF i > Len(qctrls) THEN 0
    ELSE IF qctrls[i].id > id THEN i
    ELSE QueryNextFrom(qctrls, id, i + 1)

\* the loop before its first query: qctrl = v4l2_queryctrl(next_flag)
EnumStart == [ctrls |-> << >>, id |-> 0, queries |-> << >>, log |-> << >>, done |-> FALSE]

\* one pass through the loop, ending the enumeration at a failed value read
EnumStep_ReadFailureEnds(st, device) ==
    LET k == QueryNextFrom(device.qctrls, st.id, 1)
        q == device.qctrls[k]
        asked == [st EXCEPT !.queries = Append(@, st.id)]
    IN  IF k = 0 \/ (V4L2Enumerated(q) /\ V4L2TypeOf(q) # "button" /\ q.id \in device.gfail)
        THEN [asked EXCEPT !.done = TRUE]
        ELSE [asked EXCEPT !.id = q.id,
                           !.ctrls = IF V4L2Enumerated(q)
                                     THEN Append(@, V4L2MakeCtrl(q, device.vals[q.id], 0))
                                     ELSE @]

\* one pass through the while True loop of V4L2Ctrls.get_device_controls:
\* the query, and for a returned descriptor of a listed type the value read
\* (a failed one is logged and leaves the zero of the fresh v4l2_control),
\* the menu queries and the append
EnumStep(st, device) ==
    LET k == QueryNextFrom(device.qctrls, st.id, 1)
        q == device.qctrls[k]
        asked == [st EXCEPT !.queries = Append(@, st.id)]
        read == V4L2Enumerated(q) /\ V4L2TypeOf(q) # "button"
        failed == read /\ q.id \in device.gfail
    IN  IF k = 0
        THEN [asked EXCEPT !.done = TRUE]
        ELSE [asked EXCEPT !.id = q.id,
                           !.log = IF failed THEN Append(@, [op |-> "warning", id |-> q.id]) ELSE @,
                           !.ctrls = IF V4L2Enumerated(q)
                                     THEN Append(@, V4L2MakeCtrl(q, IF failed THEN 0 ELSE device.vals[q.id], 0))
                                     ELSE @]

PoolIds == {EnumPool[i].id : i \in 1..Len(EnumPool)}

InitEnum ==
    /\ m = CameraCtrls_init(PlainDevice,
                            DevState(V4L2Vals(1, 1, 1), DevFmt(1, 1), DevIntervals[1], XuOf(PlainDevice)),
                            NoFlags, NoFile)
    /\ pre = m
    /\ last = Idle
    /\ n = 0
    /\ keys = {}
    /\ lis = NoListener
    /\ pct = NoPct
    /\ call = NoCall
    /\ \E which \in SUBSET PoolIds, sat \in {0, 2},
          gfail \in SUBSET {V4L2_CID_SATURATION, V4L2_CID_POWER_LINE_FREQUENCY, V4L2_CID_LINK_FREQ} :
          /\ gfail \subseteq which
          /\ V4L2_CID_SATURATION \notin which => sat = 0
          /\ fn = [NoFn EXCEPT !.f = "get_device_controls", !.arg = EnumDevice(which, sat, gfail),
                               !.res = EnumStart]

\* the loop runs once more
QueryNext ==
    /\ fn.f = "get_device_controls" /\ ~fn.done
    /\ LET st == EnumStep(fn.res, fn.arg)
       IN  fn' = [fn EXCEPT !.res = st, !.done = st.done]
    /\ UNCHANGED <<m, pre, last, n, keys, lis, pct, call>>

NextEnum == QueryNext

SpecEnum == InitEnum /\ [][NextEnum]_vars

\* the loop is straight-line code of the constructing thread: it goes on
SpecEnumFair == SpecEnum /\ WF_vars(QueryNext)

(***************************************************************************)
(* Properties of the enumeration.                                          *)
(***************************************************************************)
\* the descriptors of the listed types, in the device's order
ListedTypes ==
    {V4L2_CTRL_TYPE_INTEGER, V4L2_CTRL_TYPE_BOOLEAN, V4L2_CTRL_TYPE_MENU,
     V4L2_CTRL_TYPE_INTEGER_MENU, V4L2_CTRL_TYPE_BUTTON}

Listed(qctrls) == SelectSeq(qctrls, LAMBDA q : q.type \in ListedTypes)

\* the enumeration has ended as claimed: the first query asked from id 0,
\* every later one from the id returned before, one query more than the
\* device has descriptors, only value reads logged, and the registry holding
\* the listed descriptors one for one in the device's order
EndedAsClaimed ==
    LET st == fn.res
        qctrls == fn.arg.qctrls
    IN  /\ Len(st.queries) = Len(qctrls) + 1
        /\ st.queries[1] = 0
        /\ \A j \in 1..Len(qctrls) : st.queries[j + 1] = qctrls[j].id
        /\ \A j \in 1..Len(st.log) : st.log[j].op = "warning" /\ st.log[j].id \in fn.arg.gfail
        /\ Len(st.ctrls) = Len(Listed(qctrls))
        /\ \A j \in 1..Len(st.ctrls) :
               /\ st.ctrls[j].v4l2_id = Listed(qctrls)[j].id
               /\ st.ctrls[j].type = V4L2TypeOf(Listed(qctrls)[j])

\* C26: on a device with finitely many descriptors of increasing ids the
\* enumeration ends, and whenever it has ended it has ended as claimed: the
\* failing query closes it silently, and neither a failed value read nor a
\* failed menu query has cut it short.
C26_EnumerationEnds ==
    /\ <>(fn.f = "get_device_controls" /\ fn.done)
    /\ [](fn.f = "get_device_controls" /\ fn.done => EndedAsClaimed)

\* the enumeration has ended on a device whose saturation read failed and
\* whose integer menu answered no menu query, with the button after them in
\* the registry
C26_Witness ==
    /\ fn.f = "get_device_controls" /\ fn.done
    /\ V4L2_CID_SATURATION \in fn.arg.gfail
    /\ \E j \in 1..Len(fn.res.ctrls) : \E j2 \in 1..Len(fn.res.ctrls) :
           /\ j < j2
           /\ fn.res.ctrls[j].v4l2_id = V4L2_CID_SATURATION /\ fn.res.ctrls[j].value = PyInt(0)
           /\ fn.res.ctrls[j2].v4l2_id = V4L2_CID_LINK_FREQ /\ fn.res.ctrls[j2].menu = << >>
    /\ \E j \in 1..Len(fn.res.ctrls) : fn.res.ctrls[j].type = "button"
    /\ Len(fn.res.ctrls) < Len(fn.arg.qctrls)

(***************************************************************************)
(* Properties of an apply that meets a value of the wrong form.            *)
(***************************************************************************)
\* v is not a literal the control's kind can take: on an Integer control,
\* neither a percentage nor something int() accepts ('default' standing for
\* the stored default)
NotALiteral(ctrl, v) ==
    LET w == IF v = Str("default") THEN ctrl.default ELSE v
    IN  ctrl.type = "integer" /\ w[1] # "pct" /\ ~CanInt(w)

\* C27 as claimed: an apply through the aggregator ends without an
\* exception, every backend has been handed the batch, and each key whose
\* value is not a literal of its control's kind has a warning of its own.
C27_Claimed ==
    AppliedBatch =>
        /\ ~m.raised
        /\ \A n1 \in 1..Len(Backends) : \E z \in HandOvers : m.log[z].b = Backends[n1]
        /\ \A j \in 1..Len(last.params) : \A i \in 1..Len(get_ctrls(pre.reg)) :
               (/\ get_ctrls(pre.reg)[i].text_id = last.params[j][1]
                /\ NotALiteral(get_ctrls(pre.reg)[i], last.params[j][2]))
                   => WarningsFor(last.params[j][1]) # {}

(***************************************************************************)
(* stop() beside a timeout cycle.  The test 'if not self.epoll.closed' and *)
(* the call of query_fmt_changes() that follows it are two steps of the    *)
(* thread, lis.pc = "timeout" and lis.pc = "query"; the caller's stop()    *)
(* and other processes' changes of the format fall anywhere between them.  *)
(***************************************************************************)
\* if not self.epoll.closed: ... continue
TimeoutTest ==
    /\ lis.pc = "timeout"
    /\ lis' = IF lis.closed THEN [lis EXCEPT !.pc = "while"] ELSE [lis EXCEPT !.pc = "query"]
    /\ last' = Op("timeout", << >>, << >>)
    /\ UNCHANGED <<m, pre, n, keys, pct, call, fn>>

\* self.query_fmt_changes(): VIDIOC_G_FMT, VIDIOC_G_PARM and the callback
QueryFmt ==
    /\ lis.pc = "query"
    /\ \E gfmt \in BOOLEAN, gparm \in BOOLEAN :
          LET r == query_fmt_changes(m, gfmt, gparm)
          IN  /\ m' = r.m
              /\ last' = [Op("query_fmt", << >>, << >>) EXCEPT !.gfmt = gfmt, !.gparm = gparm, !.cb = r.cb]
    /\ lis' = [lis EXCEPT !.pc = "while"]
    /\ pre' = m
    /\ UNCHANGED <<n, keys, pct, call, fn>>

NextStop ==
    \/ subscribe_events \/ ControlChange \/ FormatChange \/ StopThread
    \/ LoopTest \/ Poll \/ TimeoutTest \/ QueryFmt \/ Dequeue \/ Update

SpecStop == InitThread /\ [][NextStop]_vars

(***************************************************************************)
(* Properties of stop() while the thread runs.                             *)
(***************************************************************************)
\* the step is the thread starting a device query or a callback: the format
\* queries of a timeout cycle, VIDIOC_DQEVENT, or the update from an event
ListenerActs ==
    \/ lis.pc = "query" /\ lis'.pc # "query"
    \/ lis.pc = "ready" /\ lis.v \notin {"POLLERR", "POLLNVAL"} /\ lis'.pc # "ready"
    \/ lis.pc = "event" /\ lis'.pc # "event"

\* C28 as claimed: once stop() has returned the listener starts no device
\* query and no callback, whatever it was doing when stop() was called.
C28_Claimed == [][lis.stopreq => ~ListenerActs]_vars

(***************************************************************************)
(* Properties of the ways the listener's loop ends.                        *)
(***************************************************************************)
\* C29 as claimed: when the thread has left its loop and stop() was never
\* called, the error callback has been invoked.
C29_Claimed == (lis.pc = "done" /\ lis.exited /\ ~lis.stopreq) => lis.nerr >= 1

(***************************************************************************)
(* Properties of the Button controls' values.                              *)
(***************************************************************************)
\* the keys of the dict get_claimed_controls returns
ClaimedKeys == {get_claimed_controls(m.reg)[x][1] : x \in 1..Len(get_claimed_controls(m.reg))}

\* C30 as claimed: every Button control of the merged registry has the
\* value None, and none is among the controls a preset would save.
C30_Claimed ==
    \A i \in 1..Len(get_ctrls(m.reg)) :
        get_ctrls(m.reg)[i].type = "button" =>
            /\ get_ctrls(m.reg)[i].value = None
            /\ get_ctrls(m.reg)[i].text_id \notin ClaimedKeys

====
